---- MODULE Spec2Model ----
(***************************************************************************)
(* State-machine model of the ZXDREAM optimisation core:                   *)
(*   - zdream/optimizer.py      Optimizer / GeneticOptimizer               *)
(*   - zdream/utils/message.py  ZdreamMessage histories and best_code      *)
(*                                                                         *)
(* Conventions.                                                            *)
(*   Optional values (Python None) are sequences of length 0 or 1:         *)
(*   None == <<>>, Some(x) == <<x>>.                                       *)
(*   A numpy array of codes is a sequence of rows, a row a sequence of     *)
(*   CodeLen numbers.  Numbers are integers standing for float64 values;   *)
(*   the values a float32 can hold are the even ones, so that the cast     *)
(*   made by storing into a float32 array (F32) is not the identity.       *)
(*   The seeded generator np.random.default_rng is a small Lehmer          *)
(*   generator: a deterministic function of its state, as PCG64 is.        *)
(***************************************************************************)
EXTENDS Integers, Sequences, FiniteSets, TLC

\* ---------------------------------------------------------------- bounds
MaxPop   == 3    \* largest population size, out_pop_size and scores length
CodeLen  == 2    \* number of coordinates of a code (states_shape = (CodeLen,))
MaxCalls == 3    \* init and step calls that change an optimizer, per optimizer
MaxSeed  == 1    \* random seeds 0..MaxSeed
MaxLead  == 1    \* calls the first of two instances may be ahead of the second
MaxHist  == 3    \* generations appended to a Message
MaxGen   == 2    \* largest population of a generation of a Message
MaxOther == 1    \* entries appended to each history that is not codes or scores

\* ------------------------------------------------- optional values, misc
None == <<>>

Some(x) == <<x>>

\* zdream/utils/misc.py: default(var, val)
default(var, val) == IF var = None THEN val ELSE var[1]

\* The optional values over a set: None, or Some(x).
OptInt(S) == {None} \cup {Some(x) : x \in S}

Max(a, b) == IF a >= b THEN a ELSE b

Min(a, b) == IF a <= b THEN a ELSE b

RemoveAt(s, i) == SubSeq(s, 1, i - 1) \o SubSeq(s, i + 1, Len(s))

\* The shape (rows, columns) of an array.
Shape(arr) == <<Len(arr), IF Len(arr) = 0 THEN CodeLen ELSE Len(arr[1])>>

\* ------------------------------------------------------------ float32 cast
\* Storing a float64 value into the float32 array codes_new rounds it to the
\* nearest float32: here, to the nearest even number (halves upwards).
F32(v) == 2 * ((v + 1) \div 2)

F32Row(row) == [j \in 1..Len(row) |-> F32(row[j])]

\* --------------------------------------------------------- random generator
RngMod == 127

RngMul == 3

\* np.random.default_rng(random_seed): the state a seed gives.
SeedState(seed) == ((seed * 37 + 11) % (RngMod - 1)) + 1

\* RngMul^i modulo RngMod.
RngPow[i \in 0..(RngMod - 2)] ==
    IF i = 0 THEN 1 ELSE (RngMul * RngPow[i - 1]) % RngMod

\* State of the generator after i draws from state s: every draw multiplies
\* the state by RngMul, modulo RngMod.
RngAdv(s, i) == (s * RngPow[i % (RngMod - 1)]) % RngMod

\* The value in 0..n-1 that the i-th draw from state s gives.
RngInt(s, i, n) == RngAdv(s, i) % n

\* The distributions of Optimizer._rnd_sample.
KnownDistr == {"normal", "gumbel", "laplace", "logistic"}

\* A sample of the configured distribution with the given scale, from a raw
\* draw: never exactly zero, either sign.
Sample(raw, scale) == scale * (IF raw % 4 < 2 THEN (raw % 4) - 2 ELSE (raw % 4) - 1)

\* An initial-code sample (loc 0, scale 1), float64: odd and even values.
InitSample(raw) == raw % 4

VARIABLES
    opt,        \* opt[o]: the optimizer object o (its attributes)
    last,       \* last[o]: the last call made on optimizer o and its outcome
    calls,      \* calls[o]: init and step calls so far that changed optimizer o
    tieOrder,   \* how this build's np.argsort orders equal scores
    script,     \* the calls made on optimizer 1 that optimizer 2 has yet to make
    np_random,  \* state of the process-wide generator behind np.random.*
    msg,        \* the ZdreamMessage: its six histories
    got,        \* the last property read on the message and its outcome
    exp,        \* the experiment loop: its phase and its counters
    gen,        \* the Generator: its natural-image loader and its iterator
    fwd,        \* the last call of Generator.forward and its outcome
    scorer,     \* the Scorer: its class, its target and its aggregate
    scr,        \* the last call on the scorer and its outcome
    prs,        \* the last call of parse_recording and its outcome
    rec,        \* the probe of a recording, and the last call of the recording
    mem,        \* the arrays the caller of an optimizer holds, as objects
    nat,        \* the best-natural record of an experiment and its last generation
    clu         \* two Clusters objects and the list objects behind them

\* The Generator and what is kept of its calls.
genV == <<gen, fwd>>

\* The Scorer and what is kept of its calls.
scrV == <<scorer, scr>>

\* The caller's arrays, the best-natural record and the Clusters objects.
extra == <<mem, nat, clu>>

\* The components beside the optimizers, the random state and the message.
rest == <<exp, genV, scrV, prs, rec, extra>>

vars == <<opt, last, calls, tieOrder, script, np_random, msg, got, rest>>

\* What the optimizer calls of a single instance leave alone.
others == <<tieOrder, script, np_random, msg, got, rest>>

Optimizers == {1, 2, 3}

\* ------------------------------------------------------------- the objects
NoOptimizer ==
    [ constructed   |-> FALSE,
      shape         |-> 0,
      distr         |-> "normal",
      rng           |-> 0,
      prev_codes    |-> None,
      num_parents   |-> 0,
      temperature   |-> 0,
      mutation_size |-> 0,
      mutation_rate |-> 0,
      init_pop_size |-> 0,
      topk          |-> 0 ]

\* The stored hyperparameters of an optimizer: every attribute but the
\* current population and the generator.
HyperParams(self) ==
    [ mutation_rate |-> self.mutation_rate, mutation_size |-> self.mutation_size,
      topk |-> self.topk, num_parents |-> self.num_parents,
      temperature |-> self.temperature, shape |-> self.shape,
      init_pop_size |-> self.init_pop_size, distr |-> self.distr ]

\* What is kept of a call: the operation, whether it returned (ok) or raised
\* (err), what it returned (ret), the population and hyperparameters before
\* it (pre, pre_hp), whether it changed the optimizer (changed), the length
\* of the scores or the shape of the init_codes given (arg_shape), the
\* pop_size and save_topk a step worked with (pop_size, k) and, of a call
\* that returned, its arguments; of a step that returned, the locals of
\* step, _breed and _mutate: families, parentage, the children bred, mut_loc,
\* the mutants, the elites topk_c, and the array given to _mutate as it is
\* after the call (next_gen_in).
NoCall ==
    [ op |-> "none", ok |-> TRUE, err |-> "", ret |-> None, pre |-> None,
      pre_hp |-> HyperParams(NoOptimizer), arg_shape |-> <<>>, changed |-> TRUE,
      valid |-> FALSE, in_range |-> FALSE, pop_size |-> 0, k |-> 0,
      scores |-> <<>>, scores_after |-> <<>>, msg_in |-> <<>>, msg_out |-> <<>>,
      out_pop_size |-> None, temperature |-> None, save_topk |-> None,
      init_codes |-> None,
      families |-> <<>>, parentage |-> <<>>, children |-> <<>>,
      mut_loc |-> <<>>, mutants |-> <<>>, topk_c |-> <<>>,
      next_gen_in |-> <<>> ]


\* ------------------------------------------------------ Optimizer.__init__
\* GeneticOptimizer.__init__ (through Optimizer.__init__): the only check is
\* that a states_shape (or states_space, never given here) is supplied; the
\* hyperparameters are stored as given.
ConstructResult(states_shape, random_seed, random_distr, population_size, num_parents, topk) ==
    IF states_shape = None
    THEN [ok |-> FALSE, err |-> "ValueError", self |-> NoOptimizer]
    ELSE [ok |-> TRUE, err |-> "",
          self |-> [ constructed   |-> TRUE,
                     shape         |-> states_shape[1],
                     distr         |-> random_distr,
                     rng           |-> SeedState(random_seed),
                     prev_codes    |-> None,
                     num_parents   |-> num_parents,
                     temperature   |-> 1,
                     mutation_size |-> 1,
                     mutation_rate |-> 3,
                     init_pop_size |-> population_size,
                     topk          |-> topk ]]

\* Generator as it would be if the draws came from the process-wide np.random.
Generator_global(self) == np_random

\* Generator as it would be if the optimizers shared one generator, that of
\* the third instance.
Generator_shared(self) == opt[3].rng

\* self._rng: the generator every draw of init, _breed and _mutate comes from.
Generator(self) == self.rng

\* GeneticOptimizer.n_states
n_states(self) ==
    IF self.prev_codes # None THEN Len(self.prev_codes[1]) ELSE self.init_pop_size

\* Optimizer.codes: the current population, or ValueError before any init.
codes(self) ==
    IF self.prev_codes = None
    THEN [ok |-> FALSE, err |-> "ValueError", val |-> <<>>]
    ELSE [ok |-> TRUE, err |-> "", val |-> self.prev_codes[1]]

\* Optimizer._rnd_sample: whether the configured distribution is one of the
\* four the match statement knows (otherwise it raises ValueError).
RndSampleKnown(self) == self.distr \in KnownDistr

\* ------------------------------------------------------------ Optimizer.init
\* The shape test as it would be against the size configured at construction.
InitShapeOk_configured(self, init_codes) ==
    Shape(init_codes) = <<self.init_pop_size, self.shape>>

\* The shape test of init on supplied codes.
InitShapeOk(self, init_codes) ==
    Shape(init_codes) = <<n_states(self), self.shape>>

\* Random initial codes: n_states * shape draws, row by row.
RandomCodes(self) ==
    [i \in 1..n_states(self) |->
        [j \in 1..self.shape |->
            InitSample(RngAdv(Generator(self), (i - 1) * self.shape + j))]]

\* init(init_codes): init_codes is None or Some(array).
InitResult(self, init_codes) ==
    IF init_codes # None
    THEN IF ~InitShapeOk(self, init_codes[1])
         THEN [ok |-> FALSE, err |-> "Exception", self |-> self, ret |-> None]
         ELSE [ok |-> TRUE, err |-> "",
               self |-> [self EXCEPT !.prev_codes = Some(init_codes[1])],
               ret |-> Some(init_codes[1])]
    ELSE IF ~RndSampleKnown(self)
         THEN [ok |-> FALSE, err |-> "ValueError", self |-> self, ret |-> None]
         ELSE [ok |-> TRUE, err |-> "",
               self |-> [self EXCEPT
                            !.prev_codes = Some(RandomCodes(self)),
                            !.rng = RngAdv(Generator(self),
                                            n_states(self) * self.shape)],
               ret |-> Some(RandomCodes(self))]


\* -------------------------------------------------------- numpy primitives
\* np.argsort(scores): indices that sort the scores ascending.  The default
\* kind is not a stable sort: which of two equal scores comes first is fixed
\* by the build (tieOrder), the same at every call.
ArgSort(scores) ==
    LET m == Len(scores)
        before(j, i) == IF tieOrder = "stable" THEN j < i ELSE j > i
        rank(i) == 1 + Cardinality({j \in 1..m :
                        \/ scores[j] < scores[i]
                        \/ scores[j] = scores[i] /\ before(j, i)})
    IN  [r \in 1..m |-> CHOOSE i \in 1..m : rank(i) = r]

\* sort_s[-save_topk:], for save_topk >= 0: the last save_topk entries, but
\* the whole of sort_s when save_topk is 0 (the slice [-0:] is [0:]).
TopkIdx(sort_s, save_topk) ==
    IF save_topk = 0
    THEN sort_s
    ELSE SubSeq(sort_s, Max(Len(sort_s) - save_topk, 0) + 1, Len(sort_s))

\* scipy softmax(scores / temperature): one strictly positive weight per
\* score, larger for a larger score.  Only positivity and order are kept.
Softmax(scores, temperature) ==
    [i \in 1..Len(scores) |->
        1 + Cardinality({j \in 1..Len(scores) : scores[j] < scores[i]})]

RECURSIVE SumW(_, _)
SumW(w, idxs) == IF idxs = <<>> THEN 0 ELSE w[Head(idxs)] + SumW(w, Tail(idxs))

RECURSIVE PickAt(_, _, _)
\* The position in idxs at which the running weight first exceeds r.
PickAt(w, idxs, r) ==
    IF Len(idxs) = 1 \/ r < w[idxs[1]]
    THEN 1
    ELSE 1 + PickAt(w, Tail(idxs), r - w[idxs[1]])

RECURSIVE Choice_replace(_, _, _, _, _)
\* Choice as it would be with replace=True: a drawn index stays available.
Choice_replace(s, t, w, remaining, cnt) ==
    IF cnt = 0
    THEN <<>>
    ELSE LET pos == PickAt(w, remaining, RngInt(s, t + 1, SumW(w, remaining)))
         IN  <<remaining[pos]>> \o Choice_replace(s, t + 1, w, remaining, cnt - 1)

RECURSIVE Choice(_, _, _, _, _)
\* rng.choice(n, size=cnt, p=w, replace=False): cnt indices drawn one after
\* the other by weight among those not drawn yet, from draws t+1, t+2, ...
Choice(s, t, w, remaining, cnt) ==
    IF cnt = 0
    THEN <<>>
    ELSE LET pos == PickAt(w, remaining, RngInt(s, t + 1, SumW(w, remaining)))
         IN  <<remaining[pos]>>
               \o Choice(s, t + 1, w, RemoveAt(remaining, pos), cnt - 1)

\* --------------------------------------------------- GeneticOptimizer._breed
\* The families of _breed: num_parents indices per child.
Families(self, pop_fitness, num_children) ==
    [c \in 1..num_children |->
        Choice(Generator(self), (c - 1) * self.num_parents, pop_fitness,
               [i \in 1..Len(self.prev_codes[1]) |-> i], self.num_parents)]

\* What a cell of np.empty holds until it is assigned.
Uninitialised == -999

\* Parentage as it would be if the draws ranged over one parent more.
Parentage_wide(self, off, num_children) ==
    [c \in 1..num_children |->
        [g \in 1..self.shape |->
            RngInt(Generator(self), off + (c - 1) * self.shape + g,
                   self.num_parents + 1)]]

\* parentage of _breed: for every child and coordinate, the position in the
\* family (from 0) of the parent that gives the gene; drawn after the
\* families, from draw off + 1 on.
Parentage(self, off, num_children) ==
    [c \in 1..num_children |->
        [g \in 1..self.shape |->
            RngInt(Generator(self), off + (c - 1) * self.shape + g,
                   self.num_parents)]]

\* The loop of _breed for one child: the child starts as a row of np.empty;
\* for the i-th parent of the family, the coordinates whose lineage is i are
\* copied from that parent.
Crossover(population, family, lineage) ==
    [g \in 1..Len(lineage) |->
        LET givers == {i \in 1..Len(family) : lineage[g] = i - 1}
        IN  IF givers = {}
            THEN Uninitialised
            ELSE population[family[CHOOSE i \in givers : TRUE]][g]]

\* _breed(pop_fitness, num_children) on an initialised optimizer.  The result
\* holds the children and the number of draws made (used).
Breed(self, pop_fitness, num_children) ==
    LET population == self.prev_codes[1]
        n   == Len(population)
        np_ == self.num_parents
        d   == self.shape
    IN  IF num_children <= 0
        THEN \* np.stack of an empty list
             [ok |-> FALSE, err |-> "ValueError", used |-> 0, children |-> <<>>]
        ELSE IF Len(pop_fitness) # n \/ np_ > n \/ np_ < 0
        THEN \* rng.choice: a and p differ in size, or sample larger than a
             [ok |-> FALSE, err |-> "ValueError", used |-> 0, children |-> <<>>]
        ELSE IF np_ = 0
        THEN \* parentage: rng.choice(0, ...) of a non-empty size
             [ok |-> FALSE, err |-> "ValueError", used |-> 0, children |-> <<>>]
        ELSE LET families == Families(self, pop_fitness, num_children)
                 off == num_children * np_
                 parentage == Parentage(self, off, num_children)
             IN  [ok |-> TRUE, err |-> "",
                  used |-> off + num_children * d,
                  families |-> families, parentage |-> parentage,
                  children |->
                     [c \in 1..num_children |->
                         Crossover(population, families[c], parentage[c])]]

\* -------------------------------------------------- GeneticOptimizer._mutate
\* mut_loc of _mutate: True with probability mutation_rate (in tenths).
MutLoc(self, population) ==
    [c \in 1..Len(population) |->
        [g \in 1..self.shape |->
            RngInt(Generator(self), (c - 1) * self.shape + g, 10)
                < self.mutation_rate]]

\* Mutated as it would be if the noise were added at every coordinate.
Mutated_all(value, selected, noise) == value + noise

\* mutants[mut_loc] += noise, at one coordinate: the noise is added where
\* mut_loc is True.
Mutated(value, selected, noise) == IF selected THEN value + noise ELSE value

\* The array given to _mutate after the call: _mutate works on
\* population.copy(), the array given keeps its values.
MutateInput(population, mutants) == population

\* _mutate(population): a mutated copy, the array given as the call leaves
\* it, and the number of draws made.
Mutate(self, population) ==
    LET nr == Len(population)
        d  == self.shape
        mut_loc == MutLoc(self, population)
        \* number of mutated cells up to and including cell (c, g)
        cnt(c, g) == Cardinality({x \in (1..nr) \X (1..d) :
                        /\ mut_loc[x[1]][x[2]]
                        /\ (x[1] < c \/ (x[1] = c /\ x[2] <= g))})
    IN  IF ~RndSampleKnown(self)
        THEN [ok |-> FALSE, err |-> "ValueError", used |-> nr * d,
              mutants |-> <<>>]
        ELSE LET mutants ==
                     [c \in 1..nr |->
                         [g \in 1..d |->
                             Mutated(population[c][g], mut_loc[c][g],
                                     Sample(RngAdv(Generator(self), nr * d + cnt(c, g)),
                                            self.mutation_size))]]
             IN  [ok |-> TRUE, err |-> "",
                  used |-> nr * d + cnt(nr, d),
                  mut_loc |-> mut_loc,
                  population |-> MutateInput(population, mutants),
                  mutants |-> mutants]


\* ----------------------------------------------------- GeneticOptimizer.step
\* codes_new[:save_topk] = topk_c: the rows of topk_c must be as many as the
\* target's, or one (numpy then repeats it).
BroadcastOk(target_rows, source_rows) ==
    source_rows = target_rows \/ source_rows = 1

\* The rows stored by codes_new[:save_topk] = topk_c, cast to float32.
Elites(topk_c, target_rows) ==
    [i \in 1..target_rows |->
        F32Row(IF Len(topk_c) = 1 THEN topk_c[1] ELSE topk_c[i])]

\* The rows stored by codes_new[save_topk:] = next_gen, cast to float32.
Offspring(next_gen) == [c \in 1..Len(next_gen) |-> F32Row(next_gen[c])]

\* The scores array of the caller after the call (step only reads it).
ScoresAfterStep(scores) == scores

\* The message step returns with the codes.
StepMessage(m) == m

\* NumChildren as it would be if the children made up the current size.
NumChildren_current(self, pop_size, save_topk) == n_states(self) - save_topk

\* The num_children step asks _breed for: the rest of the new population.
NumChildren(self, pop_size, save_topk) == pop_size - save_topk

\* AfterStep as it would be if step did not store the population it returns.
AfterStep_unsaved(self, codes_new, rng) == [self EXCEPT !.rng = rng]

\* AfterStep as it would be if step also stored the size it produced.
AfterStep_resized(self, codes_new, rng) ==
    [self EXCEPT !.prev_codes = Some(codes_new), !.rng = rng,
                 !.init_pop_size = Len(codes_new)]

\* The optimizer after a successful step: new population, advanced generator.
AfterStep(self, codes_new, rng) ==
    [self EXCEPT !.prev_codes = Some(codes_new), !.rng = rng]

\* AfterFailedStep as it would be if the population were dropped on an error.
AfterFailedStep_cleared(self, rng) ==
    [self EXCEPT !.rng = rng, !.prev_codes = None]

\* The optimizer after a failed step: only the generator may have advanced.
AfterFailedStep(self, rng) == [self EXCEPT !.rng = rng]

\* step((scores, msg), out_pop_size, temperature, save_topk); the three
\* keyword arguments are None or Some(value).
StepResult(self, scores, out_pop_size, temperature, save_topk) ==
    LET pop_size == default(out_pop_size, n_states(self))
        temp     == default(temperature, self.temperature)
        k        == default(save_topk, self.topk)
        sort_s   == ArgSort(scores)
        idx      == TopkIdx(sort_s, k)
        Fail(e, used) ==
            [ok |-> FALSE, err |-> e, ret |-> None,
             self |-> AfterFailedStep(self, RngAdv(Generator(self), used))]
    IN  IF ~codes(self).ok
        THEN Fail("ValueError", 0)
        ELSE IF \E i \in 1..Len(idx) : idx[i] > n_states(self)
        THEN Fail("IndexError", 0)
        ELSE
        LET population == codes(self).val
            topk_c  == [i \in 1..Len(idx) |-> population[idx[i]]]
            fitness == Softmax(scores, temp)
            br      == Breed(self, fitness, NumChildren(self, pop_size, k))
        IN  IF ~br.ok
            THEN Fail(br.err, br.used)
            ELSE
            LET mu == Mutate([self EXCEPT !.rng = RngAdv(Generator(self), br.used)],
                             br.children)
                used == br.used + mu.used
            IN  IF ~mu.ok
                THEN Fail(mu.err, used)
                ELSE IF ~BroadcastOk(Min(k, pop_size), Len(topk_c))
                THEN Fail("ValueError", used)
                ELSE
                LET codes_new == Elites(topk_c, Min(k, pop_size))
                                    \o Offspring(mu.mutants)
                IN  [ok |-> TRUE, err |-> "", ret |-> Some(codes_new),
                     families |-> br.families, parentage |-> br.parentage,
                     children |-> br.children, mut_loc |-> mu.mut_loc,
                     mutants |-> mu.mutants, topk_c |-> topk_c,
                     next_gen_in |-> mu.population,
                     self |-> AfterStep(self, codes_new,
                                        RngAdv(Generator(self), used))]


\* ------------------------------------------------------------------ inputs
Seeds == 0..MaxSeed

\* The defaults of GeneticOptimizer.__init__; the default population size
\* of 50 is scaled down to MaxPop.
DefaultConfig ==
    [ states_shape |-> Some(CodeLen), random_distr |-> "normal",
      population_size |-> MaxPop, num_parents |-> 2, topk |-> 2 ]

AllConfigs ==
    [ states_shape : OptInt({CodeLen}), random_distr : {"normal", "cauchy"},
      population_size : 1..MaxPop, num_parents : 0..MaxPop,
      topk : 1..(MaxPop + 1) ]

\* The constructor arguments explored: the defaults, with at most one
\* argument changed.
Configs ==
    {c \in AllConfigs :
        Cardinality({f \in DOMAIN c : c[f] # DefaultConfig[f]}) <= 1}

\* init_codes arrays: r rows of c columns, every cell different; with odd = 1
\* the values are float64 values that no float32 holds.
InitArray(r, c, odd) ==
    [i \in 1..r |-> [j \in 1..c |-> 2 * (c * (i - 1) + (j - 1)) + odd]]

InitArrays ==
    {InitArray(r, CodeLen, odd) : r \in 1..MaxPop, odd \in {0, 1}}
        \cup {InitArray(MaxPop, CodeLen + 1, 0)}

\* Scores of length m: all equal, or all different with the largest at any
\* position.
ScoresOf(m) ==
    {[i \in 1..m |-> 0]} \cup {[i \in 1..m |-> (i + r) % m] : r \in 1..m}

\* The scores given to a step of a population of n: of the right length, or
\* one too short, or one too long.
ScoreVecs(n) ==
    ScoresOf(n) \cup {[i \in 1..(n + 1) |-> 0]}
        \cup (IF n > 1 THEN {[i \in 1..(n - 1) |-> 0]} ELSE {})

\* The keyword arguments of a step: out_pop_size, temperature, save_topk.
\* The temperature is overridden in the calls that give an out_pop_size.
StepArgs ==
    {<<p, IF p = None THEN None ELSE Some(2), k>> :
        p \in OptInt(2..MaxPop), k \in OptInt({0, 1, MaxPop})}

\* The Message handed to step with the scores: its mask marks every
\* stimulus as synthetic (test_optimizer.py builds it so).
MessageFor(scores) == [mask |-> [i \in 1..Len(scores) |-> TRUE]]

\* ----------------------------------------------------------------- actions
\* The state of np.random before anything has drawn from it.
NpRandomStart == SeedState(MaxSeed + 1)

\* A fresh ZdreamMessage: every history an empty list.
EmptyMessage ==
    [ codes_history |-> <<>>, states_history |-> <<>>,
      scores_gen_history |-> <<>>, scores_nat_history |-> <<>>,
      masks_history |-> <<>>, labels_history |-> <<>> ]

\* What is kept of a read of a property of the message.
NoRead == [op |-> "none", ok |-> TRUE, err |-> "", val |-> <<>>,
           pre |-> EmptyMessage]

\* The experiment before it is run: the iteration count of its configuration
\* is not yet known, nothing has been stepped or recorded.
NoExperiment ==
    [ phase |-> "NEW", iteration |-> 0, t |-> 0, steps |-> 0, appends |-> 0,
      codes |-> <<>>, scores |-> <<>> ]

\* Generator(name) with no nat_img_loader: no loader, no iterator.
NoGenerator == [loader |-> None, iter |-> 0]

\* What is kept of a call of forward: the codes and mask given, the generator
\* before it, whether it returned, the stimuli and the mask of the message
\* it returned, the natural images it drew from the loader, in order, and
\* the number of natural images asked for.
NoForward ==
    [ op |-> "none", ok |-> TRUE, err |-> "", codes |-> <<>>, mask |-> None,
      pre |-> NoGenerator, out |-> <<>>, msg_mask |-> <<>>, drawn |-> <<>>,
      asked |-> 0 ]

\* No scorer built yet.
NoScorer == [kind |-> "none", target |-> <<>>, aggregate |-> "none"]

\* What is kept of a call of the scorer: the state given, whether the call
\* returned, the layers the error message shows, the per-layer scores, the
\* number of units of each layer that entered them, the scores, the message
\* given and the one returned; val is the last optimizing_units read.
NoScore ==
    [ op |-> "none", ok |-> TRUE, err |-> "", named |-> {}, state |-> <<>>,
      layer_scores |-> <<>>, used |-> <<>>, scores |-> <<>>, msg_in |-> <<>>,
      msg_out |-> <<>>, val |-> 0 ]

\* What is kept of a call of parse_recording: the specification and the
\* layer shape given, the units asked for, whether it returned, and the
\* units it returned (all: every unit of the layer, the value None).
NoParse ==
    [ op |-> "none", units |-> <<>>, shape |-> <<>>, asked |-> <<>>, ok |-> TRUE,
      err |-> "", all |-> FALSE, neurons |-> <<>> ]

\* No recording built yet.  Of a probe: its target and the activations it
\* stores (_data); of the last call of the recording: the stimuli given,
\* whether it returned and the subject state it returned.
NoRecording ==
    [ constructed |-> FALSE, target |-> <<>>, data |-> <<>>, op |-> "none",
      calls |-> 0, ok |-> TRUE, err |-> "", stimuli |-> <<>>, out |-> <<>> ]

\* No array handed to or returned by an optimizer yet.  Arrays are objects
\* with an identity: next is the next unused one, prev that of
\* self._prev_codes (0: none), stored the population the optimizer stored in
\* its last call; held are the arrays the caller holds, each with its
\* identity and its values: the init_codes it gave, and what init and step
\* returned; wrote are those it has written to.
NoMemory ==
    [ next |-> 1, prev |-> 0, stored |-> None,
      held |-> [init_codes |-> None, init_ret |-> None, step_ret |-> None],
      wrote |-> {} ]

\* torch.zeros(generator.output_dim): the image a best-image slot starts with.
ZeroImage == 0

\* The experiment before _init.  Afterwards: the class it is of (variant),
\* whether natural images are used, the best scores and images stored, the
\* number of generations scored, the outcome of the last
\* _stm_score_to_codes, the scores and mask it was given and those it handed
\* to the step, and of the natural stimuli scored so far the highest score
\* and the stimuli that reached it.
NoNatural ==
    [ phase |-> "NEW", variant |-> "none", use_natural |-> FALSE,
      best_scr |-> <<>>, best_img |-> <<>>, gens |-> 0, ok |-> TRUE, err |-> "",
      given |-> <<>>, handed |-> <<>>, seen_max |-> None, seen_imgs |-> {} ]

\* No Clusters object built yet.  Lists are objects: lists[i] holds the
\* clusters of list object i, and list 1 is the list the default value of
\* the parameter `clusters` of Clusters.__init__ is, made once when the
\* function is defined.  obj gives the list object behind _clusters of each
\* of the two Clusters objects (0: not built), own the clusters that have
\* been added to each since it was built or last emptied, empties the number
\* of calls of empty.
NoClusters ==
    [ lists |-> << <<>> >>, obj |-> [a |-> 0, b |-> 0],
      own |-> [a |-> <<>>, b |-> <<>>], empties |-> 0 ]

Init ==
    /\ opt = [o \in Optimizers |-> NoOptimizer]
    /\ last = [o \in Optimizers |-> NoCall]
    /\ calls = [o \in Optimizers |-> 0]
    /\ tieOrder \in {"stable", "reversed"}
    /\ script = <<>>
    /\ np_random = NpRandomStart
    /\ msg = EmptyMessage
    /\ got = NoRead
    /\ exp = NoExperiment
    /\ gen = NoGenerator
    /\ fwd = NoForward
    /\ scorer = NoScorer
    /\ scr = NoScore
    /\ prs = NoParse
    /\ rec = NoRecording
    /\ mem = NoMemory
    /\ nat = NoNatural
    /\ clu = NoClusters

\* GeneticOptimizer(...) with the arguments of c and the seed, as optimizer o.
ConstructWith(o, c, random_seed) ==
    /\ ~opt[o].constructed
    /\ LET r == ConstructResult(c.states_shape, random_seed, c.random_distr,
                                c.population_size, c.num_parents, c.topk)
       IN  /\ opt' = [opt EXCEPT ![o] = r.self]
           /\ last' = [last EXCEPT ![o] =
                         [NoCall EXCEPT !.op = "construct", !.ok = r.ok,
                                        !.err = r.err]]
    /\ UNCHANGED calls

\* GeneticOptimizer(...)
Construct(o) ==
    /\ \E c \in Configs, random_seed \in Seeds : ConstructWith(o, c, random_seed)
    /\ UNCHANGED others

\* A call that changed nothing (one that raised before any assignment, or a
\* read of codes) leaves the optimizer in the state it was in before it, and
\* every call that can follow is already explored from that state: the
\* exploration goes on from the calls that changed the optimizer.
Explore(o) == last[o].changed

\* What is kept of a call of init.
InitCall(self, init_codes, r) ==
    [NoCall EXCEPT !.op = "init", !.ok = r.ok, !.err = r.err, !.ret = r.ret,
                   !.pre = self.prev_codes, !.pre_hp = HyperParams(self),
                   !.changed = (r.self # self),
                   !.arg_shape = IF init_codes = None THEN <<>>
                                 ELSE Shape(init_codes[1]),
                   !.init_codes = IF r.ok THEN init_codes ELSE None]

\* optim.init(init_codes) on optimizer o.
InitWith(o, init_codes) ==
    /\ opt[o].constructed
    /\ calls[o] < MaxCalls
    /\ Explore(o)
    /\ LET r == InitResult(opt[o], init_codes)
       IN  /\ opt' = [opt EXCEPT ![o] = r.self]
           /\ last' = [last EXCEPT ![o] = InitCall(opt[o], init_codes, r)]
           /\ calls' = [calls EXCEPT ![o] = IF r.self # opt[o] THEN @ + 1 ELSE @]

\* optim.init(init_codes)
CallInit(o) ==
    /\ \E init_codes \in OptInt(InitArrays) : InitWith(o, init_codes)
    /\ UNCHANGED others

\* Whether the arguments of a step are those of a step that has elites to
\* keep and children to breed: as many scores as codes, and an elite count of
\* at least one, below the size asked for and at most the current size.
ValidStepArgs(self, scores, args) ==
    LET n == n_states(self)
        p == default(args[1], n)
        k == default(args[3], self.topk)
    IN  Len(scores) = n /\ 1 <= k /\ k < p /\ k <= n

\* Whether the arguments of a step are in the range the slices of step take:
\* as many scores as codes, and an elite count from zero to the size asked
\* for, at most the current size.
InRangeStepArgs(self, scores, args) ==
    LET n == n_states(self)
        p == default(args[1], n)
        k == default(args[3], self.topk)
    IN  Len(scores) = n /\ 0 <= k /\ k <= p /\ k <= n

\* What is kept of a call of step.
StepCall(self, scores, args, r) ==
    [NoCall EXCEPT !.op = "step", !.ok = r.ok, !.err = r.err, !.ret = r.ret,
                   !.pre = self.prev_codes, !.pre_hp = HyperParams(self),
                   !.changed = (r.self # self),
                   !.arg_shape = <<Len(scores)>>,
                   !.valid = ValidStepArgs(self, scores, args),
                   !.in_range = InRangeStepArgs(self, scores, args),
                   !.pop_size = default(args[1], n_states(self)),
                   !.k = default(args[3], self.topk),
                   !.scores = IF r.ok THEN scores ELSE <<>>,
                   !.scores_after = IF r.ok THEN ScoresAfterStep(scores) ELSE <<>>,
                   !.msg_in = IF r.ok THEN MessageFor(scores) ELSE <<>>,
                   !.msg_out = IF r.ok THEN StepMessage(MessageFor(scores)) ELSE <<>>,
                   !.out_pop_size = IF r.ok THEN args[1] ELSE None,
                   !.temperature = IF r.ok THEN args[2] ELSE None,
                   !.save_topk = IF r.ok THEN args[3] ELSE None,
                   !.families = IF r.ok THEN r.families ELSE <<>>,
                   !.parentage = IF r.ok THEN r.parentage ELSE <<>>,
                   !.children = IF r.ok THEN r.children ELSE <<>>,
                   !.mut_loc = IF r.ok THEN r.mut_loc ELSE <<>>,
                   !.mutants = IF r.ok THEN r.mutants ELSE <<>>,
                   !.topk_c = IF r.ok THEN r.topk_c ELSE <<>>,
                   !.next_gen_in = IF r.ok THEN r.next_gen_in ELSE <<>>]

\* optim.step((scores, msg), out_pop_size, temperature, save_topk) on
\* optimizer o.
StepWith(o, scores, args) ==
    /\ opt[o].constructed
    /\ calls[o] < MaxCalls
    /\ Explore(o)
    /\ LET r == StepResult(opt[o], scores, args[1], args[2], args[3])
       IN  /\ opt' = [opt EXCEPT ![o] = r.self]
           /\ last' = [last EXCEPT ![o] = StepCall(opt[o], scores, args, r)]
           /\ calls' = [calls EXCEPT ![o] = IF r.self # opt[o] THEN @ + 1 ELSE @]

\* optim.step((scores, msg), out_pop_size, temperature, save_topk)
CallStep(o) ==
    /\ \E scores \in ScoreVecs(n_states(opt[o])), args \in StepArgs :
          StepWith(o, scores, args)
    /\ UNCHANGED others

\* optim.codes
CallCodes(o) ==
    /\ opt[o].constructed
    /\ Explore(o)
    /\ LET r == codes(opt[o])
       IN  last' = [last EXCEPT ![o] =
                      [NoCall EXCEPT !.op = "codes", !.ok = r.ok, !.err = r.err,
                                     !.changed = FALSE,
                                     !.ret = IF r.ok THEN Some(r.val) ELSE None,
                                     !.pre = opt[o].prev_codes,
                                     !.pre_hp = HyperParams(opt[o])]]
    /\ UNCHANGED <<opt, calls, others>>

\* One optimizer, every call in any order.
Next ==
    \/ Construct(1)
    \/ CallInit(1)
    \/ CallStep(1)
    \/ CallCodes(1)

Spec == Init /\ [][Next]_vars

\* ------------------------------------------------- two optimizers, one script
\* A call in the script: the operation and its arguments.
NoEntry ==
    [ op |-> "none", cfg |-> DefaultConfig, seed |-> 0, init_codes |-> None,
      scores |-> <<>>, args |-> <<None, None, None>> ]

twoFrame == <<tieOrder, np_random, msg, got, rest>>

\* Optimizer 1 is constructed; the call is noted for optimizer 2.
LeadConstruct ==
    /\ Len(script) < MaxLead
    /\ \E c \in Configs, random_seed \in Seeds :
          /\ ConstructWith(1, c, random_seed)
          /\ script' = Append(script, [NoEntry EXCEPT !.op = "construct",
                                          !.cfg = c, !.seed = random_seed])
    /\ UNCHANGED twoFrame

\* The arguments of init when two optimizers are run: none (random codes),
\* or codes of the default size.
TwoInits == {None, Some(InitArray(MaxPop, CodeLen, 1))}

\* init is called on optimizer 1.
LeadInit ==
    /\ Len(script) < MaxLead
    /\ \E init_codes \in TwoInits :
          /\ InitWith(1, init_codes)
          /\ script' = Append(script, [NoEntry EXCEPT !.op = "init",
                                          !.init_codes = init_codes])
    /\ UNCHANGED twoFrame

\* The keyword arguments of step when two optimizers are run: none, a
\* smaller or a larger population with one elite, or no elite.
TwoStepArgs ==
    {<<None, None, None>>, <<None, None, Some(0)>>} \cup
    {<<Some(p), Some(2), Some(1)>> : p \in {2, MaxPop}}

\* step is called on optimizer 1.
LeadStep ==
    /\ Len(script) < MaxLead
    /\ \E scores \in ScoreVecs(n_states(opt[1])), args \in TwoStepArgs :
          /\ StepWith(1, scores, args)
          /\ script' = Append(script, [NoEntry EXCEPT !.op = "step",
                                          !.scores = scores, !.args = args])
    /\ UNCHANGED twoFrame

\* Optimizer 2 is constructed with the arguments optimizer 1 was given.
FollowConstruct ==
    /\ script # <<>> /\ Head(script).op = "construct"
    /\ ConstructWith(2, Head(script).cfg, Head(script).seed)
    /\ script' = Tail(script)
    /\ UNCHANGED twoFrame

\* Optimizer 2 makes the call of init optimizer 1 made.
FollowInit ==
    /\ script # <<>> /\ Head(script).op = "init"
    /\ InitWith(2, Head(script).init_codes)
    /\ script' = Tail(script)
    /\ UNCHANGED twoFrame

\* Optimizer 2 makes the call of step optimizer 1 made.
FollowStep ==
    /\ script # <<>> /\ Head(script).op = "step"
    /\ StepWith(2, Head(script).scores, Head(script).args)
    /\ script' = Tail(script)
    /\ UNCHANGED twoFrame

\* Other code of the process draws from np.random (utils/parsing.py does, to
\* pick units), at any moment between the calls on the optimizers.
GlobalRandomUse ==
    /\ np_random = NpRandomStart
    /\ np_random' = RngAdv(np_random, 1)
    /\ UNCHANGED <<opt, last, calls, tieOrder, script, msg, got, rest>>

NextTwo ==
    \/ LeadConstruct
    \/ LeadInit
    \/ LeadStep
    \/ FollowConstruct
    \/ FollowInit
    \/ FollowStep
    \/ GlobalRandomUse

SpecTwo == Init /\ [][NextTwo]_vars

\* -------------------------------------------------------------- ZdreamMessage
\* The property names of the latest-entry accessors and their histories.
Accessors ==
    [ codes |-> "codes_history", states |-> "states_history",
      scores_gen |-> "scores_gen_history", scores_nat |-> "scores_nat_history",
      mask |-> "masks_history", labels |-> "labels_history" ]

\* Latest as it would be if it read the first entry.
Latest_first(history) == history[1]

\* history[-1]
Latest(history) == history[Len(history)]

\* A latest-entry property: history[-1], the IndexError of an empty list
\* turned into ValueError.
LatestResult(history) ==
    IF history = <<>>
    THEN [ok |-> FALSE, err |-> "ValueError", val |-> <<>>]
    ELSE [ok |-> TRUE, err |-> "", val |-> Latest(history)]

\* Whether np.asarray can make one array of the entries: all of one length.
Rectangular(history) ==
    \A a, b \in 1..Len(history) : Len(history[a]) = Len(history[b])

RECURSIVE Flatten(_)
\* The entries of a rectangular history one after the other (C order).
Flatten(history) ==
    IF history = <<>> THEN <<>> ELSE Head(history) \o Flatten(Tail(history))

\* np.argmax of a flat array: the first position (from 0) of the maximum.
FlatArgMax(flat) ==
    (CHOOSE f \in 1..Len(flat) :
        /\ \A j \in 1..Len(flat) : flat[j] <= flat[f]
        /\ \A j \in 1..(f - 1) : flat[j] < flat[f]) - 1

\* np.unravel_index(flat_idx, (G, m)): the row and the column, from 0.
UnravelIndex(flat_idx, shape) == <<flat_idx \div shape[2], flat_idx % shape[2]>>

\* ZdreamMessage.best_code
BestCode(self) ==
    LET sgh == self.scores_gen_history
        Fail(e) == [ok |-> FALSE, err |-> e, val |-> <<>>]
    IN  IF sgh = <<>> \/ ~Rectangular(sgh) \/ Len(sgh[1]) = 0
        THEN \* np.argmax of an empty or of a ragged sequence
             Fail("ValueError")
        ELSE LET flat_idx == FlatArgMax(Flatten(sgh))
                 at       == UnravelIndex(flat_idx, <<Len(sgh), Len(sgh[1])>>)
                 best_gen == at[1]
                 best_idx == at[2]
             IN  IF best_gen + 1 > Len(self.codes_history)
                 THEN Fail("IndexError")
                 ELSE IF best_idx + 1 > Len(self.codes_history[best_gen + 1])
                 THEN Fail("IndexError")
                 ELSE \* indexed with the list [best_idx]: a batch of one code
                      [ok |-> TRUE, err |-> "",
                       val |-> <<self.codes_history[best_gen + 1][best_idx + 1]>>]

\* The codes of generation g (from 1), m of them: every value different.
GenCodes(g, m) ==
    [i \in 1..m |-> [j \in 1..CodeLen |-> 100 * g + 10 * i + j]]

\* The scores of a generation of m codes.
GenScores(m) == [1..m -> {0, 1}]

OtherHistories ==
    {"states_history", "scores_nat_history", "masks_history", "labels_history"}

\* The loop appends a generation: its codes and their scores.
AppendGeneration ==
    /\ Len(msg.codes_history) < MaxHist
    /\ \E m \in 1..MaxGen : \E scores \in GenScores(m) :
          msg' = [msg EXCEPT
                    !.codes_history = Append(@, GenCodes(Len(@) + 1, m)),
                    !.scores_gen_history = Append(@, scores)]
    /\ got' = NoRead
    /\ UNCHANGED <<opt, last, calls, tieOrder, script, np_random, rest>>

\* The loop appends an entry to one of the other histories.
AppendHistory ==
    /\ \E h \in OtherHistories :
          /\ Len(msg[h]) < MaxOther
          /\ msg' = [msg EXCEPT ![h] = Append(@, <<Len(@) + 1>>)]
    /\ got' = NoRead
    /\ UNCHANGED <<opt, last, calls, tieOrder, script, np_random, rest>>

\* msg.codes, msg.states, msg.scores_gen, msg.scores_nat, msg.mask, msg.labels
ReadLatest ==
    /\ \E a \in DOMAIN Accessors :
          LET r == LatestResult(msg[Accessors[a]])
          IN  got' = [op |-> a, ok |-> r.ok, err |-> r.err, val |-> r.val,
                      pre |-> msg]
    /\ UNCHANGED <<opt, last, calls, tieOrder, script, np_random, msg, rest>>

\* msg.best_code
ReadBestCode ==
    /\ LET r == BestCode(msg)
       IN  got' = [op |-> "best_code", ok |-> r.ok, err |-> r.err,
                   val |-> r.val, pre |-> msg]
    /\ UNCHANGED <<opt, last, calls, tieOrder, script, np_random, msg, rest>>

RECURSIVE SumOf(_)
SumOf(v) == IF v = <<>> THEN 0 ELSE Head(v) + SumOf(Tail(v))

\* np.mean(s): the quotient sum / count, kept as the pair of the two.
Mean(v) == [num |-> SumOf(v), den |-> Len(v)]

\* SEM(s), the standard deviation over the square root of the count: kept as
\* the count and count * (sum of squares) - (sum squared), of which it is a
\* function.
SEM(v) == [n |-> Len(v),
           dev |-> Len(v) * SumOf([i \in 1..Len(v) |-> v[i] * v[i]])
                     - SumOf(v) * SumOf(v)]

\* np.argmax(scores, axis=1): per generation, the first position (from 0) of
\* its maximum.
ArgMaxRows(scores) == [g \in 1..Len(scores) |-> FlatArgMax(scores[g])]

\* ZdreamMessage._scores_stats(scores, synthetic)
ScoresStats(self, scores, synthetic) ==
    LET Fail(e) == [ok |-> FALSE, err |-> e, val |-> <<>>]
    IN  IF scores = <<>> \/ ~Rectangular(scores) \/ Len(scores[1]) = 0
        THEN \* np.argmax of an empty or of a ragged sequence
             Fail("ValueError")
        ELSE
        LET flat_idx == FlatArgMax(Flatten(scores))
            at       == UnravelIndex(flat_idx, <<Len(scores), Len(scores[1])>>)
            gen_idx  == ArgMaxRows(scores)
            stats ==
                [ best_score |-> <<scores[at[1] + 1][at[2] + 1]>>,
                  curr_score |-> Latest(scores),
                  mean_gens  |-> [g \in 1..Len(scores) |-> Mean(scores[g])],
                  sem_gens   |-> [g \in 1..Len(scores) |-> SEM(scores[g])],
                  best_gens  |-> [g \in 1..Len(scores) |->
                                    scores[g][gen_idx[g] + 1]] ]
            zipped   == Min(Len(self.codes_history), Len(scores))
        IN  IF ~synthetic
            THEN [ok |-> TRUE, err |-> "", val |-> stats]
            ELSE IF ~BestCode(self).ok
            THEN Fail(BestCode(self).err)
            ELSE IF ~LatestResult(self.codes_history).ok
            THEN Fail("ValueError")
            ELSE IF \E g \in 1..zipped :
                        gen_idx[g] + 1 > Len(self.codes_history[g])
            THEN Fail("IndexError")
            ELSE [ok |-> TRUE, err |-> "",
                  val |-> [ best_score |-> stats.best_score,
                            curr_score |-> stats.curr_score,
                            mean_gens  |-> stats.mean_gens,
                            sem_gens   |-> stats.sem_gens,
                            best_gens  |-> stats.best_gens,
                            best_code  |-> BestCode(self).val,
                            curr_codes |-> Latest(self.codes_history),
                            best_codes_gen |->
                                [g \in 1..zipped |->
                                    self.codes_history[g][gen_idx[g] + 1]] ]]

\* msg.stats_gen, msg.stats_nat
ReadStats ==
    /\ \E synthetic \in BOOLEAN :
          LET r == ScoresStats(msg, IF synthetic THEN msg.scores_gen_history
                                   ELSE msg.scores_nat_history, synthetic)
          IN  got' = [op |-> IF synthetic THEN "stats_gen" ELSE "stats_nat",
                      ok |-> r.ok, err |-> r.err, val |-> r.val, pre |-> msg]
    /\ UNCHANGED <<opt, last, calls, tieOrder, script, np_random, msg, rest>>

InitMsg == Init /\ tieOrder = "stable"

NextMsg ==
    \/ AppendGeneration
    \/ AppendHistory
    \/ ReadLatest
    \/ ReadBestCode
    \/ ReadStats

SpecMsg == InitMsg /\ [][NextMsg]_vars


\* --------------------------------------------------------- experiment loop
\* The largest iteration count of an experiment configuration.
MaxIter == 3

\* range(n) as it would be if it ran up to and including n.
Range_inclusive(n) == 0..n

\* range(n): the values the loop variable of `for t in range(n)` takes.
Range(n) == 0..(n - 1)

\* The loop is set up: the optimizer is built with its defaults and a seed,
\* optim.init() gives the first codes, the message starts empty.
ExpInit ==
    /\ exp.phase = "NEW"
    /\ \E iteration \in 0..MaxIter, random_seed \in Seeds :
          LET c == DefaultConfig
              built == ConstructResult(c.states_shape, random_seed, c.random_distr,
                                       c.population_size, c.num_parents, c.topk)
              r == InitResult(built.self, None)
          IN  /\ opt' = [opt EXCEPT ![1] = r.self]
              /\ last' = [last EXCEPT ![1] = InitCall(built.self, None, r)]
              /\ exp' = [NoExperiment EXCEPT !.phase = "LOOP",
                                             !.iteration = iteration,
                                             !.codes = r.ret[1]]
    /\ msg' = EmptyMessage
    /\ got' = NoRead
    /\ UNCHANGED <<calls, tieOrder, script, np_random, genV, scrV, prs, rec, extra>>

\* GENERATE, EVALUATE, SCORE: while the loop variable is in the range, the
\* current codes are turned into stimuli, shown and scored, one score a code.
ExpScore ==
    /\ exp.phase = "LOOP"
    /\ exp.t \in Range(exp.iteration)
    /\ \E scores \in ScoresOf(Len(exp.codes)) :
          exp' = [exp EXCEPT !.phase = "UPDATE", !.scores = scores]
    /\ UNCHANGED <<opt, last, calls, tieOrder, script, np_random, msg, got, genV, scrV, prs, rec, extra>>

\* UPDATE: the scores are fed to optim.step, which gives the next codes; an
\* exception of the step ends the run.
ExpUpdate ==
    /\ exp.phase = "UPDATE"
    /\ LET args == <<None, None, None>>
           r == StepResult(opt[1], exp.scores, args[1], args[2], args[3])
       IN  /\ opt' = [opt EXCEPT ![1] = r.self]
           /\ last' = [last EXCEPT ![1] = StepCall(opt[1], exp.scores, args, r)]
           /\ exp' = [exp EXCEPT !.phase = IF r.ok THEN "RECORD" ELSE "ERROR",
                                 !.steps = @ + 1]
    /\ UNCHANGED <<calls, tieOrder, script, np_random, msg, got, genV, scrV, prs, rec, extra>>

\* RECORD: the generation is appended to the message, one entry to each
\* history (no natural images are used: no natural scores, no labels), and
\* the loop variable moves on.
ExpRecord ==
    /\ exp.phase = "RECORD"
    /\ msg' = [msg EXCEPT
                 !.codes_history = Append(@, exp.codes),
                 !.states_history = Append(@, <<Len(@) + 1>>),
                 !.scores_gen_history = Append(@, exp.scores),
                 !.masks_history = Append(@, MessageFor(exp.scores).mask),
                 !.labels_history = Append(@, <<>>)]
    /\ exp' = [exp EXCEPT !.phase = "LOOP", !.t = @ + 1, !.appends = @ + 1,
                          !.codes = codes(opt[1]).val]
    /\ got' = NoRead
    /\ UNCHANGED <<opt, last, calls, tieOrder, script, np_random, genV, scrV, prs, rec, extra>>

\* FINISH: the loop variable has left the range.
ExpFinish ==
    /\ exp.phase = "LOOP"
    /\ exp.t \notin Range(exp.iteration)
    /\ exp' = [exp EXCEPT !.phase = "FINISH"]
    /\ UNCHANGED <<opt, last, calls, tieOrder, script, np_random, msg, got, genV, scrV, prs, rec, extra>>

\* After the run the message is read for reporting: its latest entries and
\* the statistics of the synthetic scores.
ExpReport ==
    /\ exp.phase = "FINISH"
    /\ \/ \E a \in DOMAIN Accessors :
             LET r == LatestResult(msg[Accessors[a]])
             IN  got' = [op |-> a, ok |-> r.ok, err |-> r.err, val |-> r.val,
                         pre |-> msg]
       \/ LET r == ScoresStats(msg, msg.scores_gen_history, TRUE)
          IN  got' = [op |-> "stats_gen", ok |-> r.ok, err |-> r.err,
                      val |-> r.val, pre |-> msg]
    /\ UNCHANGED <<opt, last, calls, tieOrder, script, np_random, msg, exp, genV, scrV, prs, rec, extra>>

NextExp ==
    \/ ExpInit
    \/ ExpScore
    \/ ExpUpdate
    \/ ExpRecord
    \/ ExpFinish
    \/ ExpReport

SpecExp == Init /\ [][NextExp]_vars


\* ---------------------------------------------------------------- Generator
\* The largest number of codes given to forward, the longest mask, the
\* largest natural-image dataset and the largest batch size of its loader.
MaxCodes == 2
MaxMask == 3
MaxData == 3
MaxBatch == 2

\* The shape of the images the generator produces.
GenImgShape == 1

\* The image _forward generates from a code.
Stimulus(code) == [kind |-> "gen", img |-> code + 100]

\* The k-th image of the natural-image dataset.
Natural(k) == [kind |-> "nat", img |-> k]

\* A cell of torch.empty that nothing has been written to.
Unwritten == [kind |-> "empty", img |-> 0]

\* len(loader): the number of batches of a DataLoader, the last one partial
\* when the batch size does not divide the size of the dataset.
NumBatches(loader) ==
    (loader.size + loader.batch_size - 1) \div loader.batch_size

\* The i-th batch (from 1) of an iterator on the loader.
Batch(loader, i) ==
    [k \in 1..Min(loader.batch_size, loader.size - (i - 1) * loader.batch_size)
        |-> Natural((i - 1) * loader.batch_size + k)]

\* sum(mask) as it would be if it counted every entry of the mask.
SumMask_len(mask) == Len(mask)

\* sum(mask) of a list of booleans: the number of its True entries.
SumMask(mask) == Cardinality({i \in 1..Len(mask) : mask[i]})

\* The positions (from 1) of the entries of the mask equal to b, ascending.
Where(mask, b) ==
    SelectSeq([i \in 1..Len(mask) |-> i], LAMBDA i : mask[i] = b)

\* Generator._masking_sanity_check(mask, num_gen_img); mask is None or
\* Some(list).
MaskingSanityCheck(self, mask, num_gen_img) ==
    LET Truthy(m) == m # None /\ m[1] # <<>>
        all_true == Truthy(mask) /\ \A i \in 1..Len(mask[1]) : mask[1][i]
        Fail(e) == [ok |-> FALSE, err |-> e, mask |-> <<>>]
    IN  IF all_true /\ Len(mask[1]) # num_gen_img
        THEN Fail("ValueError")
        ELSE
        LET mask1 == IF all_true THEN None ELSE mask
        IN  IF Truthy(mask1) /\ self.loader = None
            THEN Fail("AssertionError")
            ELSE
            LET mask2 == IF Truthy(mask1) THEN mask1[1]
                         ELSE [i \in 1..num_gen_img |-> TRUE]
            IN  IF SumMask(mask2) # num_gen_img
                THEN Fail("ValueError")
                ELSE [ok |-> TRUE, err |-> "", mask |-> mask2]

\* The loop of _load_natural_images: batches are taken from the iterator
\* (at position pos) until the number of batches times the batch size
\* reaches the number asked for; an exhausted iterator is replaced by a new
\* one on the same loader.
RECURSIVE LoadBatches(_, _, _, _)
LoadBatches(loader, pos, nat_img_list, num_nat_img) ==
    IF Len(nat_img_list) * loader.batch_size >= num_nat_img
    THEN [iter |-> pos, nat_img_list |-> nat_img_list]
    ELSE IF pos < NumBatches(loader)
    THEN LoadBatches(loader, pos + 1,
                     Append(nat_img_list, Batch(loader, pos + 1)), num_nat_img)
    ELSE LoadBatches(loader, 0, nat_img_list, num_nat_img)

\* torch.cat of a list of batches.
RECURSIVE TorchCat(_)
TorchCat(batches) ==
    IF batches = <<>> THEN <<>> ELSE Head(batches) \o TorchCat(Tail(batches))

\* Generator._load_natural_images(num_nat_img, gen_img_shape)
LoadNaturalImages(self, num_nat_img, gen_img_shape) ==
    IF num_nat_img > 0
    THEN IF self.loader = None
         THEN [ok |-> FALSE, err |-> "ValueError", self |-> self,
               nat_img |-> <<>>, drawn |-> <<>>]
         ELSE IF self.loader[1].shape # gen_img_shape
         THEN [ok |-> FALSE, err |-> "ValueError", self |-> self,
               nat_img |-> <<>>, drawn |-> <<>>]
         ELSE
         LET ld == LoadBatches(self.loader[1], self.iter, <<>>, num_nat_img)
             all == TorchCat(ld.nat_img_list)
         IN  [ok |-> TRUE, err |-> "", self |-> [self EXCEPT !.iter = ld.iter],
              nat_img |-> SubSeq(all, 1, Min(num_nat_img, Len(all))),
              drawn |-> all]
    ELSE [ok |-> TRUE, err |-> "", self |-> self, nat_img |-> <<>>,
          drawn |-> <<>>]

\* out[index] = values with a boolean index, given as the positions of its
\* True entries: the values are written in order when there are as many as
\* positions, a single value is broadcast to every position, and any other
\* number of values is a RuntimeError (shape mismatch).
IndexPut(out, positions, values) ==
    IF Len(values) = Len(positions)
    THEN [ok |-> TRUE,
          out |-> [i \in 1..Len(out) |->
                     IF \E j \in 1..Len(positions) : positions[j] = i
                     THEN values[CHOOSE j \in 1..Len(positions) : positions[j] = i]
                     ELSE out[i]]]
    ELSE IF Len(values) = 1
    THEN [ok |-> TRUE,
          out |-> [i \in 1..Len(out) |->
                     IF \E j \in 1..Len(positions) : positions[j] = i
                     THEN values[1] ELSE out[i]]]
    ELSE [ok |-> FALSE, out |-> out]

\* Generator.forward(codes, mask)
ForwardResult(self, codes_in, mask) ==
    LET chk == MaskingSanityCheck(self, mask, Len(codes_in))
        Fail(e, g) == [ok |-> FALSE, err |-> e, self |-> g, out |-> <<>>,
                       msg_mask |-> <<>>, drawn |-> <<>>]
    IN  IF ~chk.ok
        THEN Fail(chk.err, self)
        ELSE
        LET gen_img == [j \in 1..Len(codes_in) |-> Stimulus(codes_in[j])]
            num_gen_img == Len(Where(chk.mask, TRUE))
            num_nat_img == Len(Where(chk.mask, FALSE))
            ld == LoadNaturalImages(self, num_nat_img, GenImgShape)
        IN  IF ~ld.ok
            THEN Fail(ld.err, ld.self)
            ELSE
            LET empty == [i \in 1..(num_nat_img + num_gen_img) |-> Unwritten]
                put_gen == IndexPut(empty, Where(chk.mask, TRUE), gen_img)
                put_nat == IndexPut(put_gen.out, Where(chk.mask, FALSE), ld.nat_img)
            IN  IF ~put_gen.ok \/ ~put_nat.ok
                THEN Fail("RuntimeError", ld.self)
                ELSE [ok |-> TRUE, err |-> "", self |-> ld.self,
                      out |-> put_nat.out, msg_mask |-> chk.mask,
                      drawn |-> ld.drawn]

\* The loaders given to set_nat_img_loader: none, or a DataLoader on a
\* dataset of some size with some batch size, whose images have the shape
\* of the generated ones or another.
Loaders ==
    OptInt([size : 1..MaxData, batch_size : 1..MaxBatch,
            shape : {GenImgShape, GenImgShape + 1}])

\* The code batches given to forward: 0 to MaxCodes codes, all different.
CodeBatches == {[j \in 1..n |-> j] : n \in 0..MaxCodes}

\* The masks given to forward: none, or any list of up to MaxMask booleans.
Masks == OptInt(UNION {[1..n -> BOOLEAN] : n \in 0..MaxMask})

\* The optimizers, the random state and the message.
core == <<opt, last, calls, tieOrder, script, np_random, msg, got>>

\* set_nat_img_loader(nat_img_loader): the loader is kept and a new iterator
\* is made on it.
SetNatImgLoader ==
    /\ \E nat_img_loader \in Loaders :
          gen' = [loader |-> nat_img_loader, iter |-> 0]
    /\ fwd' = NoForward
    /\ UNCHANGED <<core, exp, scrV, prs, rec, extra>>

\* generator.forward(codes, mask)
Forward ==
    /\ \E codes_in \in CodeBatches, mask \in Masks :
          LET r == ForwardResult(gen, codes_in, mask)
          IN  /\ gen' = r.self
              /\ fwd' = [op |-> "forward", ok |-> r.ok, err |-> r.err,
                         codes |-> codes_in, mask |-> mask, pre |-> gen,
                         out |-> r.out, msg_mask |-> r.msg_mask,
                         drawn |-> r.drawn,
                         asked |-> Len(Where(r.msg_mask, FALSE))]
    /\ UNCHANGED <<core, exp, scrV, prs, rec, extra>>

NextGen ==
    \/ SetNatImgLoader
    \/ Forward

InitGen == Init /\ tieOrder = "stable"

SpecGen == InitGen /\ [][NextGen]_vars


\* ------------------------------------------------------------------- Scorer
\* The largest batch of stimuli in a subject state.
MaxBatchSize == 2

\* The layers of the subject and the number of units of each.
ScrLayers == {"conv1", "conv2", "fc"}

Width(layer) == IF layer = "conv1" THEN 1 ELSE 2

\* Fractions: the values of np.mean, kept exact as a numerator over a
\* positive denominator, in lowest terms.
RECURSIVE GCD(_, _)
GCD(a, b) == IF b = 0 THEN a ELSE GCD(b, a % b)

Abs(a) == IF a < 0 THEN 0 - a ELSE a

Rat(n, d) == LET g == GCD(Abs(n), d) IN [n |-> n \div g, d |-> d \div g]

RatAdd(x, y) == Rat(x.n * y.d + y.n * x.d, x.d * y.d)

RatDiv(x, k) == Rat(x.n, x.d * k)

RatNeg(x) == [n |-> 0 - x.n, d |-> x.d]

\* The sum of the fractions f[k] for k in the set S.
RECURSIVE RatSum(_, _)
RatSum(f, S) ==
    IF S = {} THEN Rat(0, 1)
    ELSE LET k == CHOOSE k \in S : TRUE
         IN  RatAdd(f[k], RatSum(f, S \ {k}))

\* Scorer._check_key_consistency(target, state): ValueError when a key of
\* the target is not a key of the state; the message of the error shows
\* set(state).difference(target).
CheckKeyConsistency(target_keys, state_keys) ==
    IF ~(target_keys \subseteq state_keys)
    THEN [ok |-> FALSE, err |-> "ValueError", named |-> state_keys \ target_keys]
    ELSE [ok |-> TRUE, err |-> "", named |-> {}]

\* MSEScorer.mse(a, b): the mean over the units of the squared difference,
\* one value a stimulus; b, of one row, is broadcast to the rows of a.
mse(a, b) ==
    [i \in 1..Len(a) |->
        Rat(SumOf([u \in 1..Len(a[i]) |-> (a[i][u] - b[1][u]) * (a[i][u] - b[1][u])]),
            Len(a[i]))]

\* MSEScorer._score(state, target)
MSEScore(state, target) ==
    LET chk == CheckKeyConsistency(DOMAIN target, DOMAIN state)
    IN  IF ~chk.ok
        THEN [ok |-> FALSE, err |-> chk.err, named |-> chk.named, scores |-> <<>>,
              used |-> <<>>]
        ELSE [ok |-> TRUE, err |-> "", named |-> {},
              scores |-> [layer \in {l \in DOMAIN state : l \in DOMAIN target} |->
                            LET m == mse(state[layer], target[layer])
                            IN  [i \in 1..Len(m) |-> RatNeg(m[i])]],
              used |-> [layer \in {l \in DOMAIN state : l \in DOMAIN target} |->
                            Len(target[layer][1])]]

\* activations[:, neurons] for a list of unit indices (from 0), or
\* activations[:, slice(None)], every unit, for the empty list.
SelectUnits(activations, neurons) ==
    [i \in 1..Len(activations) |->
        IF neurons # <<>>
        THEN [k \in 1..Len(neurons) |-> activations[i][neurons[k] + 1]]
        ELSE activations[i]]

\* reduce(x, 'b u -> b', np.mean)
Reduction(x) == [i \in 1..Len(x) |-> Rat(SumOf(x[i]), Len(x[i]))]

\* MaxActivityScorer._combine(state, neurons)
Combine(state, neurons) ==
    LET chk == CheckKeyConsistency(DOMAIN neurons, DOMAIN state)
    IN  IF ~chk.ok
        THEN [ok |-> FALSE, err |-> chk.err, named |-> chk.named, scores |-> <<>>,
              used |-> <<>>]
        ELSE [ok |-> TRUE, err |-> "", named |-> {},
              scores |-> [layer \in {l \in DOMAIN state : l \in DOMAIN neurons} |->
                            Reduction(SelectUnits(state[layer], neurons[layer]))],
              used |-> [layer \in {l \in DOMAIN state : l \in DOMAIN neurons} |->
                            Len(SelectUnits(state[layer], neurons[layer])[1])]]

\* The aggregate as it would be if it added the layers up.
AggregateMean_sum(layer_scores, n) ==
    [i \in 1..n |-> RatSum([l \in DOMAIN layer_scores |-> layer_scores[l][i]],
                           DOMAIN layer_scores)]

\* np.mean(list(d.values()), axis=0): the mean across the layers, entry by
\* entry, of per-layer arrays of n scores.
AggregateMean(layer_scores, n) ==
    [i \in 1..n |-> RatDiv(RatSum([l \in DOMAIN layer_scores |-> layer_scores[l][i]],
                                  DOMAIN layer_scores),
                           Cardinality(DOMAIN layer_scores))]

\* self.criterion(state)
Criterion(self, state) ==
    IF self.kind = "MSEScorer" THEN MSEScore(state, self.target)
    ELSE Combine(state, self.target)

\* self.aggregate(layer_scores)
Aggregate(self, layer_scores, n) ==
    IF self.aggregate = "sum" THEN AggregateMean_sum(layer_scores, n)
    ELSE AggregateMean(layer_scores, n)

\* The number of stimuli of a state: the rows of its layers.
BatchOf(state) ==
    IF DOMAIN state = {} THEN 0
    ELSE Len(state[CHOOSE l \in DOMAIN state : TRUE])

\* Scorer.__call__((state, msg))
ScorerCall(self, state, m) ==
    LET layer_scores == Criterion(self, state)
    IN  IF ~layer_scores.ok
        THEN [ok |-> FALSE, err |-> layer_scores.err, named |-> layer_scores.named,
              layer_scores |-> <<>>, used |-> <<>>, scores |-> <<>>, msg |-> <<>>]
        ELSE [ok |-> TRUE, err |-> "", named |-> {},
              layer_scores |-> layer_scores.scores, used |-> layer_scores.used,
              scores |-> Aggregate(self, layer_scores.scores, BatchOf(state)),
              msg |-> m]

\* MSEScorer.target / MaxActivityScorer.target: the scoring units of each
\* layer, as lists.
Target(self) ==
    IF self.kind = "MSEScorer"
    THEN [k \in DOMAIN self.target |->
            [u \in 1..(Len(self.target[k]) * Len(self.target[k][1])) |-> u - 1]]
    ELSE self.target

\* sum([f[k] for k in S])
RECURSIVE SumOver(_, _)
SumOver(f, S) ==
    IF S = {} THEN 0
    ELSE LET k == CHOOSE k \in S : TRUE IN f[k] + SumOver(f, S \ {k})

\* Scorer.optimizing_units
OptimizingUnits(self) ==
    LET t == Target(self)
    IN  SumOver([k \in DOMAIN t |-> Len(t[k])], DOMAIN t)

\* The subject states given to a scorer: the activations of some layers for
\* a batch of stimuli, one row a stimulus, one column a unit.
SubjectStates ==
    {[l \in S |-> [i \in 1..b |-> [u \in 1..Width(l) |-> (i + 2 * u + p + Width(l)) % 3]]] :
        S \in SUBSET ScrLayers, b \in 1..MaxBatchSize, p \in 0..1}

\* The targets of an MSEScorer: a target state of one row for some layers.
MSETargets ==
    {[l \in S |-> <<[u \in 1..Width(l) |-> (u + q) % 2]>>] :
        S \in (SUBSET ScrLayers) \ {{}}, q \in 0..1}

\* The targets of a MaxActivityScorer: for some layers the list of the
\* units to score, empty, or the first unit, or every unit.
UnitLists(layer) ==
    {<<>>, <<0>>, [u \in 1..Width(layer) |-> u - 1]}

MaxActivityTargets ==
    UNION {{t \in [S -> UNION {UnitLists(l) : l \in S}] :
               \A l \in S : t[l] \in UnitLists(l)} : S \in (SUBSET ScrLayers) \ {{}}}

\* MSEScorer(target): the aggregate is the default one.
ConstructMSEScorer ==
    /\ scorer.kind = "none"
    /\ \E target \in MSETargets :
          scorer' = [kind |-> "MSEScorer", target |-> target, aggregate |-> "default"]
    /\ scr' = NoScore
    /\ UNCHANGED <<core, exp, genV, prs, rec, extra>>

\* MaxActivityScorer(trg_neurons, aggregate): the aggregate given is the
\* mean or the sum across the layers.
ConstructMaxActivityScorer ==
    /\ scorer.kind = "none"
    /\ \E trg_neurons \in MaxActivityTargets, aggregate \in {"mean", "sum"} :
          scorer' = [kind |-> "MaxActivityScorer", target |-> trg_neurons,
                     aggregate |-> aggregate]
    /\ scr' = NoScore
    /\ UNCHANGED <<core, exp, genV, prs, rec, extra>>

\* scorer((state, msg)).  A call changes nothing of the scorer: the calls
\* that can follow one are those that can be made in its place.
CallScorer ==
    /\ scorer.kind # "none"
    /\ scr.op = "none"
    /\ \E state \in SubjectStates :
          LET m == [mask |-> [i \in 1..BatchOf(state) |-> TRUE]]
              r == ScorerCall(scorer, state, m)
          IN  scr' = [op |-> "call", ok |-> r.ok, err |-> r.err, named |-> r.named,
                      state |-> state, layer_scores |-> r.layer_scores,
                      used |-> r.used, scores |-> r.scores, msg_in |-> m,
                      msg_out |-> r.msg, val |-> 0]
    /\ UNCHANGED <<core, exp, genV, scorer, prs, rec, extra>>

\* scorer.optimizing_units, read after a call.
ReadOptimizingUnits ==
    /\ scorer.kind # "none"
    /\ scr.op = "call"
    /\ scr' = [scr EXCEPT !.op = "optimizing_units", !.val = OptimizingUnits(scorer)]
    /\ UNCHANGED <<core, exp, genV, scorer, prs, rec, extra>>

NextScr ==
    \/ ConstructMSEScorer
    \/ ConstructMaxActivityScorer
    \/ CallScorer
    \/ ReadOptimizingUnits

SpecScr == InitGen /\ [][NextScr]_vars


\* ------------------------------------------------------------ parse_recording
\* The largest coordinate written in a unit specification.
MaxCoord == 2

\* The most units in an explicit specification, and the most coordinates of
\* a unit or ranges of a range specification.
MaxUnits == 2
MaxDims == 2

\* tuple(u) > shape, the comparison of Python tuples: the first position
\* where they differ decides, and a proper prefix is the smaller one.
TupleGT(u, shape) ==
    \/ \E i \in 1..Min(Len(u), Len(shape)) :
          /\ u[i] > shape[i]
          /\ \A j \in 1..(i - 1) : u[j] = shape[j]
    \/ /\ Len(u) > Len(shape)
       /\ \A j \in 1..Len(shape) : u[j] = shape[j]

\* list(product(*ranges)): every tuple with one value of each range, given
\* as the pairs (from, to), the last coordinate running fastest.
RECURSIVE Product(_)
Product(bounds) ==
    IF bounds = <<>> THEN << <<>> >>
    ELSE LET rest_ == Product(Tail(bounds))
             from == Head(bounds)[1]
             n == Max(0, Head(bounds)[2] - from)
         IN  [k \in 1..(n * Len(rest_)) |->
                <<from + ((k - 1) \div Len(rest_))>>
                    \o rest_[((k - 1) % Len(rest_)) + 1]]

\* The units a specification asks for, one tuple of coordinates a unit:
\* those listed (a plain number is a unit of one coordinate) or those of the
\* product of the ranges; np.array raises on units of differing lengths.
Neurons(units) ==
    IF units.kind = "all"
    THEN [ok |-> TRUE, err |-> "", all |-> TRUE, neurons |-> <<>>]
    ELSE IF units.kind = "range"
    THEN [ok |-> TRUE, err |-> "", all |-> FALSE, neurons |-> Product(units.bounds)]
    ELSE IF \E i, j \in 1..Len(units.codes) : Len(units.codes[i]) # Len(units.codes[j])
    THEN [ok |-> FALSE, err |-> "SyntaxError", all |-> FALSE, neurons |-> <<>>]
    ELSE [ok |-> TRUE, err |-> "", all |-> FALSE, neurons |-> units.codes]

\* parse_recording for one layer of the given shape (batch size excluded):
\* the units are parsed, then checked against the shape.
ParseRecording(units, shape) ==
    LET p == Neurons(units)
    IN  IF ~p.ok
        THEN [ok |-> FALSE, err |-> p.err, all |-> FALSE, neurons |-> <<>>]
        ELSE IF \E k \in 1..Len(p.neurons) : TupleGT(p.neurons[k], shape)
        THEN [ok |-> FALSE, err |-> "ValueError", all |-> FALSE, neurons |-> <<>>]
        ELSE IF \E k \in 1..Len(p.neurons) : Len(p.neurons[k]) # Len(shape)
        THEN [ok |-> FALSE, err |-> "ValueError", all |-> FALSE, neurons |-> <<>>]
        ELSE [ok |-> TRUE, err |-> "", all |-> p.all, neurons |-> p.neurons]

\* The shapes of the layers of net_info, batch size excluded.
LayerShapes == {<<2>>, <<3>>, <<2, 2>>, <<2, 3>>}

\* A unit: one to MaxDims coordinates.
UnitCodes == UNION {[1..d -> 0..MaxCoord] : d \in 1..MaxDims}

\* The unit specifications: [], a list of units, or ranges FROM:TO.
UnitSpecs ==
    {[kind |-> "all", codes |-> <<>>, bounds |-> <<>>]}
    \cup {[kind |-> "units", codes |-> c, bounds |-> <<>>] :
            c \in UNION {[1..n -> UnitCodes] : n \in 1..MaxUnits}}
    \cup {[kind |-> "range", codes |-> <<>>, bounds |-> b] :
            b \in UNION {[1..d -> (0..1) \X (1..(MaxCoord + 1))] : d \in 1..MaxDims}}

\* parse_recording(input_str, net_info) for a network of one layer; the
\* function keeps nothing from one call to the next.
CallParseRecording ==
    /\ prs.op = "none"
    /\ \E units \in UnitSpecs, shape \in LayerShapes :
          LET r == ParseRecording(units, shape)
          IN  prs' = [op |-> "parse_recording", units |-> units, shape |-> shape,
                      asked |-> IF units.kind = "units" THEN units.codes
                                ELSE Neurons(units).neurons,
                      ok |-> r.ok, err |-> r.err, all |-> r.all, neurons |-> r.neurons]
    /\ UNCHANGED <<core, exp, genV, scrV, rec, extra>>

NextPrs == CallParseRecording

SpecPrs == InitGen /\ [][NextPrs]_vars


\* ----------------------------------------------- SilicoProbe, SilicoRecording
\* The number of stimuli to choose a batch from, and the number of calls of
\* a recording.
MaxStimuli == 3
MaxRecCalls == 2

\* The layers of the network, in the order its forward pass runs them.
NetLayers == <<"conv1", "conv2", "fc">>

\* The activation of a unit (from 1) of a layer for a stimulus: a float32.
Activation(layer, s, u) == F32(20 * s + 4 * u + 2 * Width(layer))

\* The output of a layer for a batch: one row a stimulus, one column a unit.
LayerOut(layer, stimuli) ==
    [i \in 1..Len(stimuli) |-> [u \in 1..Width(layer) |-> Activation(layer, stimuli[i], u)]]

\* ndarray.squeeze() of a two-dimensional array: every axis of length one is
\* dropped, the batch axis of a batch of one stimulus included.
Squeeze(out) ==
    IF Len(out) = 1 /\ Len(out[1]) = 1 THEN [ndim |-> 0, v |-> out[1][1]]
    ELSE IF Len(out) = 1 THEN [ndim |-> 1, v |-> out[1]]
    ELSE IF Len(out[1]) = 1 THEN [ndim |-> 1, v |-> [i \in 1..Len(out) |-> out[i][1]]]
    ELSE [ndim |-> 2, v |-> out]

\* full_act[(slice(None), *targ_idx)] for one array of unit indices (from
\* 0): the columns of a two-dimensional array, IndexError on fewer axes.
TargAct(full_act, targ_idx) ==
    IF targ_idx = None THEN [ok |-> TRUE, a |-> full_act]
    ELSE IF full_act.ndim < 2 THEN [ok |-> FALSE, a |-> full_act]
    ELSE [ok |-> TRUE,
          a |-> [ndim |-> 2,
                 v |-> [i \in 1..Len(full_act.v) |->
                          [k \in 1..Len(targ_idx[1]) |-> full_act.v[i][targ_idx[1][k] + 1]]]]]

\* rearrange(a.astype(self._format), 'b ... -> b (...)'): the first axis is
\* kept and the others are flattened (one column when there is no other);
\* an array of no axis is an error.
Rearrange(a) ==
    IF a.ndim = 0 THEN [ok |-> FALSE, v |-> <<>>]
    ELSE IF a.ndim = 1 THEN [ok |-> TRUE, v |-> [i \in 1..Len(a.v) |-> <<F32(a.v[i])>>]]
    ELSE [ok |-> TRUE, v |-> [i \in 1..Len(a.v) |-> F32Row(a.v[i])]]

\* SilicoProbe.__call__(module, inp, out), the forward hook of a layer.
Hook(self, layer, out) ==
    LET targ == TargAct(Squeeze(out), self.target[layer])
        arr == Rearrange(targ.a)
    IN  IF ~targ.ok THEN [ok |-> FALSE, err |-> "IndexError", self |-> self]
        ELSE IF ~arr.ok THEN [ok |-> FALSE, err |-> "EinopsError", self |-> self]
        ELSE [ok |-> TRUE, err |-> "",
              self |-> [self EXCEPT !.data[layer] = Append(@, arr.v)]]

\* self._network(stimuli): the layers run in order, the hook of each probed
\* layer is called on its output, and an exception of a hook ends the pass.
RECURSIVE NetworkForward(_, _, _)
NetworkForward(self, layers, stimuli) ==
    IF layers = <<>> THEN [ok |-> TRUE, err |-> "", self |-> self]
    ELSE IF Head(layers) \notin DOMAIN self.target
    THEN NetworkForward(self, Tail(layers), stimuli)
    ELSE LET h == Hook(self, Head(layers), LayerOut(Head(layers), stimuli))
         IN  IF ~h.ok THEN h ELSE NetworkForward(h.self, Tail(layers), stimuli)

\* SilicoProbe.features: for each layer with stored activations, their
\* concatenation along the first axis (a ValueError when the stored arrays
\* differ in their number of columns).
Features(self) ==
    LET keys == {l \in DOMAIN self.data : self.data[l] # <<>>}
    IN  IF \E l \in keys : \E i, j \in 1..Len(self.data[l]) :
              Len(self.data[l][i][1]) # Len(self.data[l][j][1])
        THEN [ok |-> FALSE, err |-> "ValueError", out |-> <<>>]
        ELSE [ok |-> TRUE, err |-> "", out |-> [l \in keys |-> TorchCat(self.data[l])]]

\* SilicoRecording.__call__(stimuli)
RecordingCall(self, stimuli) ==
    LET run == NetworkForward(self, NetLayers, stimuli)
        out == Features(run.self)
    IN  IF ~run.ok THEN [ok |-> FALSE, err |-> run.err, self |-> run.self, out |-> <<>>]
        ELSE IF ~out.ok THEN [ok |-> FALSE, err |-> out.err, self |-> run.self, out |-> <<>>]
        ELSE [ok |-> TRUE, err |-> "", out |-> out.out,
              self |-> [run.self EXCEPT !.data = [l \in DOMAIN self.data |-> <<>>]]]

\* The targets of a probe: for some layers, None (every unit) or the array
\* of the index of the first unit.
ProbeTargets ==
    UNION {[S -> {None, Some(<<0>>)}] : S \in (SUBSET ScrLayers) \ {{}}}

\* The batches of stimuli: one to MaxBatchSize different stimuli, in any
\* order.
StimuliBatches ==
    {b \in UNION {[1..n -> 1..MaxStimuli] : n \in 1..MaxBatchSize} :
        \A i, j \in 1..Len(b) : i # j => b[i] # b[j]}

\* SilicoProbe(target) and SilicoRecording(network, probe)
ConstructRecording ==
    /\ ~rec.constructed
    /\ \E target \in ProbeTargets :
          rec' = [rec EXCEPT !.constructed = TRUE, !.target = target,
                             !.data = [l \in DOMAIN target |-> <<>>]]
    /\ UNCHANGED <<core, exp, genV, scrV, prs, extra>>

\* recording(stimuli)
CallRecording ==
    /\ rec.constructed
    /\ rec.calls < MaxRecCalls
    /\ \E stimuli \in StimuliBatches :
          LET r == RecordingCall(rec, stimuli)
          IN  rec' = [r.self EXCEPT !.op = "call", !.calls = @ + 1, !.ok = r.ok,
                                    !.err = r.err, !.stimuli = stimuli,
                                    !.out = r.out]
    /\ UNCHANGED <<core, exp, genV, scrV, prs, extra>>

NextRec ==
    \/ ConstructRecording
    \/ CallRecording

SpecRec == InitGen /\ [][NextRec]_vars


\* ------------------------------- two optimizers and a third one, interleaved
\* The seed of the third optimizer: one that the other two are not given.
OtherSeed == MaxSeed + 2

\* The keyword arguments of the steps of the two optimizers when a third one
\* runs: none, or a smaller population with one elite.
PairStepArgs == {<<None, None, None>>, <<Some(2), Some(2), Some(1)>>}

\* Optimizer 1 is constructed with the defaults and a seed; the call is
\* noted for optimizer 2.
PairConstruct ==
    /\ Len(script) < MaxLead
    /\ \E random_seed \in Seeds :
          /\ ConstructWith(1, DefaultConfig, random_seed)
          /\ script' = Append(script, [NoEntry EXCEPT !.op = "construct",
                                          !.seed = random_seed])
    /\ UNCHANGED twoFrame

\* init() is called on optimizer 1: random codes.
PairInit ==
    /\ Len(script) < MaxLead
    /\ InitWith(1, None)
    /\ script' = Append(script, [NoEntry EXCEPT !.op = "init"])
    /\ UNCHANGED twoFrame

\* step is called on optimizer 1.
PairStep ==
    /\ Len(script) < MaxLead
    /\ \E scores \in ScoresOf(n_states(opt[1])), args \in PairStepArgs :
          /\ StepWith(1, scores, args)
          /\ script' = Append(script, [NoEntry EXCEPT !.op = "step",
                                          !.scores = scores, !.args = args])
    /\ UNCHANGED twoFrame

\* The third optimizer is constructed, with a seed of its own.
OtherConstruct ==
    /\ ConstructWith(3, DefaultConfig, OtherSeed)
    /\ UNCHANGED others

\* init() is called on the third optimizer.
OtherInit ==
    /\ InitWith(3, None)
    /\ UNCHANGED others

\* step is called on the third optimizer.
OtherStep ==
    /\ \E scores \in ScoresOf(n_states(opt[3])) :
          StepWith(3, scores, <<None, None, None>>)
    /\ UNCHANGED others

\* Two optimizers given the same calls, the second after the first, while
\* a third optimizer and other users of np.random run in between.
NextPair ==
    \/ PairConstruct
    \/ PairInit
    \/ PairStep
    \/ FollowConstruct
    \/ FollowInit
    \/ FollowStep
    \/ OtherConstruct
    \/ OtherInit
    \/ OtherStep
    \/ GlobalRandomUse

SpecPair == Init /\ [][NextPair]_vars


\* ------------------------------------------------- a deterministic objective
\* The point the objective is highest at: a float64 point that no float32
\* holds (an odd coordinate).
ObjTarget == <<1, 2>>

\* The objective of the loop: the score of a code is a function of its value
\* alone, here the negative squared distance to ObjTarget.
Objective(code) ==
    0 - SumOf([j \in 1..Len(code) |->
                  (code[j] - ObjTarget[j]) * (code[j] - ObjTarget[j])])

\* The scores of a population: the objective of every code.
ScoreOf(state) == [i \in 1..Len(state) |-> Objective(state[i])]

\* score.max()
MaxScore(scores) ==
    CHOOSE m \in {scores[i] : i \in 1..Len(scores)} :
        \A i \in 1..Len(scores) : scores[i] <= m

\* The keyword arguments of the steps of the loop: the defaults, or one or
\* two elites with a population size given.
ObjStepArgs ==
    {<<None, None, None>>, <<None, None, Some(1)>>,
     <<Some(MaxPop), Some(2), Some(1)>>, <<Some(2), None, Some(1)>>}

\* The optimizer of the loop is built.
ObjConstruct ==
    /\ \E c \in Configs, random_seed \in Seeds : ConstructWith(1, c, random_seed)
    /\ UNCHANGED others

\* state = optim.init(), or optim.init(init_codes)
ObjInit ==
    /\ \E init_codes \in OptInt(InitArrays) : InitWith(1, init_codes)
    /\ UNCHANGED others

\* state = optim.step((score, msg)), score the objective of the codes of the
\* optimizer.
ObjStep ==
    /\ opt[1].prev_codes # None
    /\ \E args \in ObjStepArgs :
          StepWith(1, ScoreOf(opt[1].prev_codes[1]), args)
    /\ UNCHANGED others

NextObj ==
    \/ ObjConstruct
    \/ ObjInit
    \/ ObjStep

SpecObj == Init /\ [][NextObj]_vars


\* ------------------------------------------------- best-natural record
MaxNatGen == 3    \* generations scored by an experiment

MaxStim == 3      \* stimuli of a generation: 2..MaxStim

\* float('-inf'): below every score.
NegInf == -1000

\* The scores a natural stimulus can get: negative ones and a positive one.
NatScores == {-2, -1, 1}

\* The scores of a generation with the given mask: a synthetic stimulus
\* scores 0, a natural one any of NatScores.
SubScores(mask) ==
    {s \in [1..Len(mask) -> NatScores \cup {0}] :
        \A i \in 1..Len(mask) : (s[i] = 0) <=> mask[i]}

\* The classes that track a best natural image: MaximizeActivityExperiment of
\* the script and _MaximizeActivityExperiment of utils/experiment_types.py.
NatVariants == {"script", "types"}

\* What _init stores, by class: the script starts the best natural score at
\* -inf (when natural images are used), experiment_types at 0 for both kinds.
BestInit(variant, use_natural) ==
    IF variant = "types"
    THEN [scr |-> [gen |-> 0, nat |-> 0],
          img |-> [gen |-> ZeroImage, nat |-> ZeroImage]]
    ELSE IF use_natural
    THEN [scr |-> [nat |-> NegInf], img |-> [nat |-> ZeroImage]]
    ELSE [scr |-> <<>>, img |-> <<>>]

\* arr[mask] for b = TRUE, arr[~mask] for b = FALSE.
Masked(arr, mask, b) ==
    [p \in 1..Len(Where(mask, b)) |-> arr[Where(mask, b)[p]]]

\* max_ > best
BetterThan(max_, best) == max_ > best

\* One round of the tracking: the maximum of the scores of the kind and the
\* first stimulus that has it replace the record when the maximum is higher;
\* np.amax of no scores raises ValueError.
Track(best, imtype, sub_score, mask, b, stimuli) ==
    LET sel == Masked(sub_score, mask, b)
    IN  IF sel = <<>>
        THEN [ok |-> FALSE, err |-> "ValueError", best |-> best]
        ELSE LET argmax == FlatArgMax(sel)
                 max_   == sel[argmax + 1]
             IN  [ok |-> TRUE, err |-> "",
                  best |-> IF BetterThan(max_, best.scr[imtype])
                           THEN [best EXCEPT
                                   !.scr[imtype] = max_,
                                   !.img[imtype] = Masked(stimuli, mask, b)[argmax + 1]]
                           ELSE best]

\* _stm_score_to_codes((sub_score, msg)) up to the call of the base class:
\* the record after it and the data handed to the base class.
StmScoreToCodes(self, sub_score, mask, stimuli) ==
    LET best == [scr |-> self.best_scr, img |-> self.best_img]
        Done(r) == [ok |-> r.ok, err |-> r.err, best |-> r.best,
                    handed |-> IF r.ok THEN <<sub_score, mask>> ELSE <<>>]
    IN  IF self.variant = "types"
        THEN LET g == Track(best, "gen", sub_score, mask, TRUE, stimuli)
             IN  IF ~g.ok THEN Done(g)
                 ELSE Done(Track(g.best, "nat", sub_score, mask, FALSE, stimuli))
        ELSE IF self.use_natural
        THEN Done(Track(best, "nat", sub_score, mask, FALSE, stimuli))
        ELSE Done([ok |-> TRUE, err |-> "", best |-> best])

\* The stimuli of generation g, n of them: every image different, none zero.
NatStimuli(g, n) == [i \in 1..n |-> 10 * g + i]

\* The masks of a generation of n stimuli: synthetic stimuli always, natural
\* ones when the experiment uses natural images.
NatMasks(n, use_natural) ==
    {m \in [1..n -> BOOLEAN] :
        /\ \E i \in 1..n : m[i]
        /\ (\E i \in 1..n : ~m[i]) <=> use_natural}

\* _init of the experiment.
NatInit ==
    /\ nat.phase = "NEW"
    /\ \E variant \in NatVariants, use_natural \in BOOLEAN :
          nat' = [NoNatural EXCEPT
                    !.phase = "RUN", !.variant = variant,
                    !.use_natural = use_natural,
                    !.best_scr = BestInit(variant, use_natural).scr,
                    !.best_img = BestInit(variant, use_natural).img]
    /\ UNCHANGED <<core, exp, genV, scrV, prs, rec, mem, clu>>

\* A generation is scored: _stm_score_to_codes gets the scores of its stimuli
\* and the message with their mask.
NatGeneration ==
    /\ nat.phase = "RUN" /\ nat.ok
    /\ nat.gens < MaxNatGen
    /\ \E n \in 2..MaxStim :
       \E mask \in NatMasks(n, nat.use_natural) : \E sub_score \in SubScores(mask) :
          LET stimuli == NatStimuli(nat.gens + 1, n)
              r == StmScoreToCodes(nat, sub_score, mask, stimuli)
              nats == Masked(sub_score, mask, FALSE)
              top == IF nats = <<>> THEN NegInf ELSE nats[FlatArgMax(nats) + 1]
              tops == {Masked(stimuli, mask, FALSE)[p] :
                          p \in {q \in 1..Len(nats) : nats[q] = top}}
          IN  nat' = [nat EXCEPT
                        !.gens = @ + 1, !.ok = r.ok, !.err = r.err,
                        !.best_scr = r.best.scr, !.best_img = r.best.img,
                        !.given = <<sub_score, mask>>, !.handed = r.handed,
                        !.seen_max =
                            IF nats = <<>> THEN @
                            ELSE IF @ = None \/ top > @[1] THEN Some(top) ELSE @,
                        !.seen_imgs =
                            IF nats = <<>> THEN @
                            ELSE IF nat.seen_max = None \/ top > nat.seen_max[1]
                            THEN tops
                            ELSE IF top = nat.seen_max[1] THEN @ \cup tops ELSE @]
    /\ UNCHANGED <<core, exp, genV, scrV, prs, rec, mem, clu>>

NextNat ==
    \/ NatInit
    \/ NatGeneration

SpecNat == InitGen /\ [][NextNat]_vars


\* ------------------------------------------------- _load_natural_images alone
MaxRequest == 4   \* natural images asked for in one call: 0..MaxRequest

\* self._load_natural_images(num_nat_img, gen_img_shape), as forward calls
\* it, with the shape of the generated images.
LoadCall ==
    /\ \E num_nat_img \in 0..MaxRequest :
          LET r == LoadNaturalImages(gen, num_nat_img, GenImgShape)
          IN  /\ gen' = r.self
              /\ fwd' = [NoForward EXCEPT
                           !.op = "load", !.ok = r.ok, !.err = r.err,
                           !.pre = gen, !.out = r.nat_img, !.drawn = r.drawn,
                           !.asked = num_nat_img]
    /\ UNCHANGED <<core, exp, scrV, prs, rec, extra>>

NextLoad ==
    \/ SetNatImgLoader
    \/ LoadCall

SpecLoad == InitGen /\ [][NextLoad]_vars


\* ------------------------------------------------- arrays as objects
\* CopyOf as it would be if the array were kept or returned as it is.
CopyOf_view(id, fresh) == id

\* arr.copy(): a new array object, with the values of arr.
CopyOf(id, fresh) == fresh

\* An array the caller holds: its identity and its values.
Held(id, val) == Some([id |-> id, val |-> val])

\* The identities of the arrays the caller holds.
HeldIds == {mem.held[q][1].id : q \in {x \in DOMAIN mem.held : mem.held[x] # None}}

\* arr[0, 0] += 100, in place.
Overwritten(val) == [val EXCEPT ![1][1] = @ + 100]

\* What the calls on the optimizer and the writes of the caller leave alone.
aliasFrame ==
    <<tieOrder, script, np_random, msg, got, exp, genV, scrV, prs, rec, nat, clu>>

\* The optimizer is built.
AliasConstruct ==
    /\ \E random_seed \in Seeds : ConstructWith(1, DefaultConfig, random_seed)
    /\ UNCHANGED <<mem, aliasFrame>>

\* ret = optim.init(init_codes): init keeps init_codes.copy(), or the array
\* the generator gives, and returns self._prev_codes.copy().
AliasInit ==
    /\ \E init_codes \in TwoInits :
          /\ InitWith(1, init_codes)
          /\ LET r == InitResult(opt[1], init_codes)
                 given == init_codes # None
                 a  == mem.next
                 n1 == IF given THEN a + 1 ELSE a
                 prev == IF given THEN CopyOf(a, n1) ELSE n1
                 ret  == CopyOf(prev, n1 + 1)
                 mine == IF given THEN Held(a, init_codes[1])
                         ELSE mem.held.init_codes
             IN  mem' = IF r.ok
                        THEN [mem EXCEPT
                                !.next = n1 + 2, !.prev = prev,
                                !.stored = r.self.prev_codes,
                                !.held = [@ EXCEPT
                                            !.init_codes = mine,
                                            !.init_ret = Held(ret, r.ret[1])]]
                        ELSE [mem EXCEPT !.next = n1,
                                         !.held = [@ EXCEPT !.init_codes = mine]]
    /\ UNCHANGED aliasFrame

\* codes, msg = optim.step((scores, msg)): step fills the new array
\* codes_new, keeps codes_new.copy() and returns codes_new.
AliasStep ==
    /\ \E scores \in ScoresOf(n_states(opt[1])) :
          /\ StepWith(1, scores, <<None, None, None>>)
          /\ LET r == StepResult(opt[1], scores, None, None, None)
                 a == mem.next
             IN  mem' = IF r.ok
                        THEN [mem EXCEPT
                                !.next = a + 2, !.prev = CopyOf(a, a + 1),
                                !.stored = r.self.prev_codes,
                                !.held = [@ EXCEPT !.step_ret = Held(a, r.ret[1])]]
                        ELSE mem
    /\ UNCHANGED aliasFrame

\* The caller writes in place to an array it holds: every holder of the
\* object sees the write, the optimizer too if it is its population.
CallerWrite ==
    /\ \E role \in DOMAIN mem.held :
          /\ mem.held[role] # None
          /\ role \notin mem.wrote
          /\ LET x == mem.held[role][1].id
                 new == Overwritten(mem.held[role][1].val)
             IN  /\ mem' = [mem EXCEPT
                              !.wrote = @ \cup {role},
                              !.held = [q \in DOMAIN @ |->
                                          IF @[q] # None /\ @[q][1].id = x
                                          THEN Held(x, new) ELSE @[q]]]
                 /\ opt' = IF mem.prev = x
                           THEN [opt EXCEPT ![1].prev_codes = Some(new)]
                           ELSE opt
    /\ UNCHANGED <<last, calls, aliasFrame>>

NextAlias ==
    \/ AliasConstruct
    \/ AliasInit
    \/ AliasStep
    \/ CallerWrite

SpecAlias == Init /\ [][NextAlias]_vars


\* ------------------------------------------------------------------ Clusters
MaxClusters == 2   \* clusters in a list object
MaxEmpties  == 2   \* calls of empty

\* The list object that is the default of `clusters` in Clusters.__init__.
DefaultList == 1

\* The Cluster objects added: each the labels of its objects.
ClusterSet == {<<0>>, <<1>>, <<0, 1>>}

\* Clusters(): self._clusters = clusters, the default list object.
InitClusters(lists) == DefaultList

\* Clusters.clusters of object o.
Clusters_of(o) == clu.lists[clu.obj[o]]

\* Clusters.clusters_counts: for each cluster size, the number of clusters
\* of that size.
ClustersCounts(clusters) ==
    [n \in {Len(clusters[i]) : i \in 1..Len(clusters)} |->
        Cardinality({i \in 1..Len(clusters) : Len(clusters[i]) = n})]

\* Clusters.labeling, as the cluster index (from 0) given to each label: the
\* last cluster that holds the label.
Labeling(clusters) ==
    [l \in UNION {{clusters[i][j] : j \in 1..Len(clusters[i])} : i \in 1..Len(clusters)} |->
        (CHOOSE i \in 1..Len(clusters) :
            /\ \E j \in 1..Len(clusters[i]) : clusters[i][j] = l
            /\ \A k \in (i + 1)..Len(clusters) :
                  \A j \in 1..Len(clusters[k]) : clusters[k][j] # l) - 1]

cluFrame == <<core, exp, genV, scrV, prs, rec, mem, nat>>

\* Clusters(), without arguments.
CluConstruct ==
    /\ \E o \in {"a", "b"} :
          /\ clu.obj[o] = 0
          /\ LET made == InitClusters(clu.lists)
             IN  clu' = [clu EXCEPT
                           !.obj[o] = made,
                           !.lists = IF made > Len(@) THEN Append(@, <<>>) ELSE @,
                           !.own[o] = <<>>]
    /\ UNCHANGED cluFrame

\* clusters.add(cluster): self._clusters.append(cluster)
CluAdd ==
    /\ \E o \in {"a", "b"}, cluster \in ClusterSet :
          /\ clu.obj[o] # 0
          /\ Len(Clusters_of(o)) < MaxClusters
          /\ clu' = [clu EXCEPT !.lists[clu.obj[o]] = Append(@, cluster),
                                !.own[o] = Append(@, cluster)]
    /\ UNCHANGED cluFrame

\* clusters.empty(): self._clusters = [], a new list object.
CluEmpty ==
    /\ clu.empties < MaxEmpties
    /\ \E o \in {"a", "b"} :
          /\ clu.obj[o] # 0
          /\ clu' = [clu EXCEPT !.lists = Append(@, <<>>),
                                !.obj[o] = Len(clu.lists) + 1,
                                !.own[o] = <<>>,
                                !.empties = @ + 1]
    /\ UNCHANGED cluFrame

NextClu ==
    \/ CluConstruct
    \/ CluAdd
    \/ CluEmpty

SpecClu == InitGen /\ [][NextClu]_vars


\* ================================================================ properties
\* The values a mutation can add to a coordinate: nothing, or a sample.
NoiseVals == {0} \cup {Sample(raw, 1) : raw \in 0..3}

\* A configuration step can run with on a population of n: at least one
\* parent, no more parents than codes, and a distribution _rnd_sample knows.
CanBreed(hp, n) ==
    hp.num_parents >= 1 /\ hp.num_parents <= n /\ hp.distr \in KnownDistr

\* C1: after init, a step with valid arguments (as many scores as codes, an
\* elite count k of at least one, below p and at most the current size) on an
\* optimizer that can breed returns; and after a step that returns, the
\* returned population and the optimizer's current population both have
\* exactly p rows, p being the out_pop_size given or else the size of the
\* population before the step; the first k rows (k the save_topk given, or
\* else the stored topk) are rows of the previous population (as float32), and
\* each of the other p - k rows is a child: every coordinate is that
\* coordinate of a previous row, possibly mutated.
C1_PopulationSize ==
    \A o \in Optimizers :
        LET c == last[o]
        IN  /\ (c.op = "step" /\ c.pre # None /\ c.valid
                    /\ CanBreed(c.pre_hp, Len(c.pre[1]))) => c.ok
            /\ (c.op = "step" /\ c.ok) =>
                LET pre == c.pre[1]
                    new == c.ret[1]
                    p   == default(c.out_pop_size, Len(pre))
                    k   == default(c.save_topk, c.pre_hp.topk)
                IN  /\ Len(new) = p
                    /\ opt[o].prev_codes # None
                    /\ Len(opt[o].prev_codes[1]) = p
                    /\ k <= p
                    /\ \A i \in 1..k : \E j \in 1..Len(pre) : new[i] = F32Row(pre[j])
                    /\ \A i \in (k + 1)..p : \A g \in 1..c.pre_hp.shape :
                          \E j \in 1..Len(pre), e \in NoiseVals :
                              new[i][g] = F32(pre[j][g] + e * c.pre_hp.mutation_size)

\* C1 witness: a third call, a step that returned a larger population than
\* the one before it, which an earlier step had made smaller than configured.
C1_Witness ==
    \E o \in Optimizers :
        /\ last[o].op = "step" /\ last[o].ok
        /\ Len(last[o].pre[1]) < last[o].pre_hp.init_pop_size
        /\ Len(last[o].ret[1]) > Len(last[o].pre[1])
        /\ default(last[o].save_topk, last[o].pre_hp.topk) >= 1

\* Whether the rows new[1..k] are exactly the rows of pre at k indices whose
\* scores are the k highest.
IsTopK(pre, scores, new, k) ==
    \E top \in SUBSET (1..Len(pre)) :
        /\ Cardinality(top) = k
        /\ \A j \in top, j2 \in (1..Len(pre)) \ top : scores[j] >= scores[j2]
        /\ \E f \in [1..k -> top] :
              /\ \A a, b \in 1..k : f[a] = f[b] => a = b
              /\ \A i \in 1..k : new[i] = pre[f[i]]

\* A configuration the claim calls invalid has topk above the population
\* size, no parent, or a distribution that is not known.
ValidConfig(self) ==
    /\ self.topk <= self.init_pop_size
    /\ self.num_parents >= 1
    /\ self.distr \in KnownDistr

\* C2: elitism.  Every step on an optimizer that can breed, given as many
\* scores as codes and an elite count k from zero to the population size (k
\* the save_topk given, or else the stored topk), returns; and after every
\* step that returns, the first k rows of the new population are, with exactly
\* equal values, the k rows of the previous population with the highest
\* scores.
C2_Elitism ==
    \A o \in Optimizers :
        LET c == last[o]
        IN  /\ (c.op = "step" /\ c.pre # None /\ c.in_range
                    /\ CanBreed(c.pre_hp, Len(c.pre[1]))) => c.ok
            /\ (c.op = "step" /\ c.ok) =>
                LET k == default(c.save_topk, c.pre_hp.topk)
                IN  /\ k <= Len(c.ret[1])
                    /\ IsTopK(c.pre[1], c.scores, c.ret[1], k)

\* Whether some call of step on the optimizer returns.
StepCallable(self) ==
    \E scores \in ScoresOf(n_states(self)), args \in StepArgs :
        StepResult(self, scores, args[1], args[2], args[3]).ok

\* The accessor and the population through the lifecycle: before any init the
\* codes accessor raises ValueError and step raises and leaves the optimizer
\* without a population; once a population exists the accessor returns it,
\* init and step leave as current population exactly what they return, and no
\* call takes the population away again.
Lifecycle(o) ==
    LET c   == last[o]
        cur == opt[o].prev_codes
    IN  /\ (c.op = "codes" /\ c.pre = None) =>
              (~c.ok /\ c.err = "ValueError" /\ c.ret = None)
        /\ (c.op = "step" /\ c.pre = None) =>
              (~c.ok /\ c.ret = None /\ cur = None)
        /\ (c.op = "codes" /\ c.pre # None) =>
              (c.ok /\ c.ret = c.pre /\ cur = c.pre)
        /\ (c.op \in {"init", "step"} /\ c.ok) =>
              (c.ret # None /\ cur = c.ret)
        /\ (c.op \in {"init", "step", "codes"} /\ c.pre # None) => cur # None

\* C4: the lifecycle.  The accessor and the population behave as Lifecycle
\* says, and there is no state from which step stops being callable: whenever
\* an optimizer constructed with a valid configuration (and no more parents
\* than its population size) has a population, some call of step returns.
C4_Lifecycle ==
    \A o \in Optimizers :
        /\ Lifecycle(o)
        /\ (opt[o].prev_codes # None /\ ValidConfig(opt[o])
                /\ opt[o].num_parents <= opt[o].init_pop_size)
              => StepCallable(opt[o])

\* The shape init expects of supplied codes according to the claim: the size
\* configured at construction.
ConfiguredShape(c) == <<c.pre_hp.init_pop_size, c.pre_hp.shape>>

\* The shape init expects in the code: the size of the current population
\* when there is one, the configured size otherwise.
CurrentShape(c) ==
    <<IF c.pre # None THEN Len(c.pre[1]) ELSE c.pre_hp.init_pop_size,
      c.pre_hp.shape>>

\* C5 as claimed: init with supplied codes returns exactly when their shape
\* is (configured population size, code shape), and when it raises the
\* population is unchanged.
C5_InitShapeConfigured ==
    \A o \in Optimizers :
        LET c == last[o]
        IN  (c.op = "init" /\ c.arg_shape # <<>>) =>
                /\ c.ok <=> (c.arg_shape = ConfiguredShape(c))
                /\ ~c.ok => opt[o].prev_codes = c.pre

\* C5 amended: init with supplied codes returns exactly when their shape is
\* (n_states, code shape), n_states being the size of the current population
\* if there is one and the configured size otherwise; when it raises, the
\* population is unchanged, and when it returns, the codes are the population.
C5_InitShapeCurrent ==
    \A o \in Optimizers :
        LET c == last[o]
        IN  (c.op = "init" /\ c.arg_shape # <<>>) =>
                /\ c.ok <=> (c.arg_shape = CurrentShape(c))
                /\ ~c.ok => (c.err = "Exception" /\ opt[o].prev_codes = c.pre)
                /\ c.ok => opt[o].prev_codes = c.init_codes

\* C5 witness: init with codes returns after a step changed the size.
C5_Witness ==
    \E o \in Optimizers :
        /\ last[o].op = "init" /\ last[o].ok /\ last[o].arg_shape # <<>>
        /\ last[o].pre # None
        /\ Len(last[o].pre[1]) # last[o].pre_hp.init_pop_size

\* C6: a step given scores whose length differs from that of the current
\* population raises (numpy's ValueError or IndexError on the mismatch) and
\* leaves the current population as it was.
C6_ScoresLength ==
    \A o \in Optimizers :
        LET c == last[o]
        IN  (c.op = "step" /\ c.pre # None /\ c.arg_shape[1] # Len(c.pre[1])) =>
                /\ ~c.ok
                /\ c.err \in {"ValueError", "IndexError"}
                /\ c.ret = None
                /\ opt[o].prev_codes = c.pre

\* C6 witness: a step of an initialised optimizer given too many scores.
C6_Witness ==
    \E o \in Optimizers :
        /\ last[o].op = "step" /\ last[o].pre # None /\ ~last[o].ok
        /\ last[o].arg_shape[1] > Len(last[o].pre[1])

\* C7: construction rejects an invalid configuration, so that every
\* constructed optimizer, and every optimizer on which init or step is
\* called, has a valid one.
C7_ConstructionRejects ==
    \A o \in Optimizers : opt[o].constructed => ValidConfig(opt[o])

\* C8: a step changes nothing of the optimizer but the population and the
\* generator: the stored hyperparameters are after the call what they were
\* before it, whatever overrides are given; the scores array is left as it was
\* given and the message comes back as it was given.
C8_StepFrame ==
    \A o \in Optimizers :
        LET c == last[o]
        IN  (c.op = "step") =>
                /\ HyperParams(opt[o]) = c.pre_hp
                /\ opt[o].constructed
                /\ c.ok => (c.scores_after = c.scores /\ c.msg_out = c.msg_in)

\* C8 witness: a step that returned, called with the three overrides, each
\* different from the stored value.
C8_Witness ==
    \E o \in Optimizers :
        LET c == last[o]
        IN  /\ c.op = "step" /\ c.ok
            /\ c.out_pop_size # None /\ c.out_pop_size[1] # c.pre_hp.init_pop_size
            /\ c.temperature # None /\ c.temperature[1] # c.pre_hp.temperature
            /\ c.save_topk # None /\ c.save_topk[1] # c.pre_hp.topk

\* C3: determinism.  Two optimizers constructed with the same seed and
\* hyperparameters that have been given the same calls of init and step, with
\* the same arguments, are equal whenever the second has caught up with the
\* first: the same current population, the same generator state, and the same
\* population returned (or the same error raised) by the last call; nothing
\* else in the process (np.random) has any part in it.
C3_Determinism ==
    script = <<>> => (opt[1] = opt[2] /\ last[1] = last[2])

\* C3 witness: both optimizers have run a random init and two steps, the last
\* one returning a population in which a child differs from every parent,
\* while np.random was used in between.
C3_Witness ==
    /\ script = <<>>
    /\ calls[1] = MaxCalls /\ calls[2] = MaxCalls
    /\ last[1].op = "step" /\ last[1].ok /\ last[2].op = "step" /\ last[2].ok
    /\ np_random # NpRandomStart
    /\ \E i \in 1..Len(last[2].ret[1]) :
          \A j \in 1..Len(last[2].pre[1]) :
              last[2].ret[1][i] # F32Row(last[2].pre[1][j])

\* C9: a latest-entry property of the message (codes, states, scores_gen,
\* scores_nat, mask, labels) raises ValueError when its history is empty,
\* returns the last entry appended to its history otherwise, and leaves every
\* history as it was.
C9_LatestAccessors ==
    got.op \in DOMAIN Accessors =>
        LET history == got.pre[Accessors[got.op]]
        IN  /\ history = <<>> => (~got.ok /\ got.err = "ValueError")
            /\ history # <<>> => (got.ok /\ got.val = history[Len(history)])
            /\ msg = got.pre

\* C9 witness: scores_gen read when the history holds several generations,
\* the first of them different from the last.
C9_Witness ==
    /\ got.op = "scores_gen" /\ got.ok
    /\ Len(msg.scores_gen_history) = MaxHist
    /\ msg.scores_gen_history[1] # msg.scores_gen_history[MaxHist]
    /\ got.val = msg.scores_gen_history[MaxHist]

\* The positions (generation, index) of the global maximum of a history of
\* scores.
MaxPositions(sgh) ==
    {x \in {y \in (1..Len(sgh)) \X (1..MaxGen) : y[2] <= Len(sgh[y[1]])} :
        \A z \in {y \in (1..Len(sgh)) \X (1..MaxGen) : y[2] <= Len(sgh[y[1]])} :
            sgh[z[1]][z[2]] <= sgh[x[1]][x[2]]}

\* C10: for a non-empty history of generations, of equal or of different
\* population sizes, best_code returns the code codes_history[g][i] (as a
\* batch of that one code), (g, i) being a position of the global maximum of
\* scores_gen_history.
C10_BestCode ==
    (got.op = "best_code" /\ got.pre.scores_gen_history # <<>>) =>
        /\ got.ok
        /\ \E x \in MaxPositions(got.pre.scores_gen_history) :
              got.val = <<got.pre.codes_history[x[1]][x[2]]>>

\* C11: stats_gen and stats_nat are functions of the history.  A read of
\* either, after any appends that left its history of scores non-empty,
\* returns; it leaves every history as it was; best_score is the maximum score
\* over all generations, curr_score the last entry appended, and mean_gens,
\* sem_gens and best_gens have one element per generation appended.
C11_StatsOfHistory ==
    (got.op \in {"stats_gen", "stats_nat"}) =>
        LET scores == IF got.op = "stats_gen" THEN got.pre.scores_gen_history
                      ELSE got.pre.scores_nat_history
        IN  /\ msg = got.pre
            /\ scores # <<>> =>
                  /\ got.ok
                  /\ \E x \in MaxPositions(scores) :
                        got.val.best_score = <<scores[x[1]][x[2]]>>
                  /\ got.val.curr_score = scores[Len(scores)]
                  /\ Len(got.val.mean_gens) = Len(scores)
                  /\ Len(got.val.sem_gens) = Len(scores)
                  /\ Len(got.val.best_gens) = Len(scores)

\* ------------------------------------------------------------------- C12
\* The states between two generations, and the state after the last one.
GenerationBoundary == exp.phase \in {"LOOP", "FINISH"}

\* At a generation boundary the loop has made as many optimizer steps as
\* generations have passed, never more than the configured count, the codes,
\* synthetic-score and mask histories each hold one entry a generation, and
\* at FINISH the count is exactly the configured one; no run ends early.
ExactlyOnePerGeneration ==
    /\ exp.phase # "ERROR"
    /\ GenerationBoundary =>
          /\ exp.t <= exp.iteration
          /\ exp.steps = exp.t
          /\ Len(msg.codes_history) = exp.t
          /\ Len(msg.scores_gen_history) = exp.t
          /\ Len(msg.masks_history) = exp.t
          /\ exp.phase = "FINISH" => exp.t = exp.iteration

\* After FINISH neither the optimizer nor the message nor the loop changes.
NothingAfterFinish ==
    exp.phase = "FINISH" => (opt' = opt /\ msg' = msg /\ exp' = exp)

MaskGiven == fwd.mask # None /\ fwd.mask[1] # <<>>

\* The number of True entries of a list of booleans.
TrueCount(m) == Cardinality({i \in 1..Len(m) : m[i]})

EffectiveMask ==
    IF MaskGiven THEN fwd.mask[1] ELSE [i \in 1..Len(fwd.codes) |-> TRUE]

\* A valid mask: as many True entries as codes, and False entries only with
\* a loader configured whose images have the shape of the generated ones.
ValidMask ==
    /\ TrueCount(EffectiveMask) = Len(fwd.codes)
    /\ (\E i \in 1..Len(EffectiveMask) : ~EffectiveMask[i]) =>
          /\ fwd.pre.loader # None
          /\ fwd.pre.loader[1].shape = GenImgShape

\* C14: for every valid mask the output batch has the length of the mask, its
\* j-th True position holds the stimulus generated from the j-th code and
\* its j-th False position the j-th natural image drawn in the call.
C14_Interleaving ==
    (fwd.op = "forward" /\ ValidMask) =>
        LET gen_at == Where(EffectiveMask, TRUE)
            nat_at == Where(EffectiveMask, FALSE)
        IN  /\ fwd.ok
            /\ Len(fwd.out) = Len(EffectiveMask)
            /\ \A j \in 1..Len(gen_at) :
                  fwd.out[gen_at[j]] = Stimulus(fwd.codes[j])
            /\ \A j \in 1..Len(nat_at) :
                  /\ j <= Len(fwd.drawn)
                  /\ fwd.out[nat_at[j]] = fwd.drawn[j]

\* ------------------------------------------------------------------- C15
\* The layers the target of the scorer requires.
TargetLayers == DOMAIN scorer.target

\* C15: scoring fails if and only if some layer required by the target is
\* absent from the subject state, and the error names exactly the missing
\* layers; a state with every target layer and extra ones is accepted, and
\* the per-layer scores have exactly the target layers as keys.
C15_LayerValidation ==
    scr.op = "call" =>
        LET missing == TargetLayers \ DOMAIN scr.state
        IN  /\ ~scr.ok <=> missing # {}
            /\ ~scr.ok => scr.named = missing
            /\ scr.ok => DOMAIN scr.layer_scores = TargetLayers

\* ------------------------------------------------------------------- C16
\* C16: the default aggregate of a scorer is the unweighted mean, entry by
\* entry, of the per-layer score arrays (for two layers a and b the i-th
\* score is (a[i] + b[i]) / 2); there is one score a stimulus of the batch,
\* and the message given to the scorer is returned unchanged.
C16_DefaultAggregate ==
    (scr.op = "call" /\ scr.ok /\ scorer.aggregate = "default") =>
        LET L == DOMAIN scr.layer_scores
        IN  /\ Len(scr.scores) = BatchOf(scr.state)
            /\ \A i \in 1..Len(scr.scores) :
                  /\ RatSum([l \in L |-> scr.scores[i]], L)
                        = RatSum([l \in L |-> scr.layer_scores[l][i]], L)
                  /\ \A a, b \in L :
                        (a # b /\ L = {a, b}) =>
                            RatAdd(scr.scores[i], scr.scores[i])
                                = RatAdd(scr.layer_scores[a][i], scr.layer_scores[b][i])
            /\ scr.msg_out = scr.msg_in

\* A call of a scorer with the default aggregate returned, for the largest
\* batch and a target of two layers whose scores differ.
C16_Witness ==
    /\ scr.op = "call"
    /\ scr.ok
    /\ scorer.aggregate = "default"
    /\ BatchOf(scr.state) = MaxBatchSize
    /\ Cardinality(DOMAIN scr.layer_scores) = 2
    /\ \E a, b \in DOMAIN scr.layer_scores :
          /\ scr.layer_scores[a][1] # scr.layer_scores[b][1]
          /\ scr.layer_scores[a][1].n # 0
          /\ scr.layer_scores[b][1].n # 0

\* ------------------------------------------------------------------- C17
\* C17: optimizing_units is the number of units that contribute to the
\* score, summed over the target layers, also for a MaxActivityScorer layer
\* whose target is the empty list (scored over every unit of the layer).
C17_OptimizingUnits ==
    (scr.op = "optimizing_units" /\ scr.ok) =>
        scr.val = SumOver(scr.used, DOMAIN scr.used)

\* ------------------------------------------------------------------- C18
\* Whether a unit is a valid index into a layer of the given shape.
ValidUnit(u, shape) ==
    /\ Len(u) = Len(shape)
    /\ \A i \in 1..Len(u) : u[i] < shape[i]

\* C18: parse_recording rejects, with an error, a specification with a unit
\* that has a coordinate greater than or equal to the extent of the layer in
\* that dimension, or a number of coordinates other than the number of
\* dimensions of the layer; every unit it accepts is a valid index.
C18_UnitsValidated ==
    prs.op = "parse_recording" =>
        /\ (\E k \in 1..Len(prs.asked) :
               \E i \in 1..Min(Len(prs.asked[k]), Len(prs.shape)) :
                  prs.asked[k][i] >= prs.shape[i]) => ~prs.ok
        /\ (\E k \in 1..Len(prs.asked) : Len(prs.asked[k]) # Len(prs.shape))
              => ~prs.ok
        /\ prs.ok => \A k \in 1..Len(prs.neurons) : ValidUnit(prs.neurons[k], prs.shape)

\* ------------------------------------------------------------------- C19
\* The activations a probe is to record of a layer for a stimulus: those of
\* the units of its target, every unit for the target None.
Recorded(layer, s) ==
    IF rec.target[layer] = None
    THEN [u \in 1..Width(layer) |-> Activation(layer, s, u)]
    ELSE [k \in 1..Len(rec.target[layer][1]) |->
            Activation(layer, s, rec.target[layer][1][k] + 1)]

\* C19: a call of the recording on a batch of B >= 1 stimuli returns, for
\* each recorded layer, an array whose first dimension is B, whose rows are
\* the activations of the stimuli in the order presented, and which holds
\* nothing of earlier calls.
C19_BatchFirst ==
    (rec.op = "call" /\ rec.ok) =>
        \A layer \in DOMAIN rec.out :
            /\ Len(rec.out[layer]) = Len(rec.stimuli)
            /\ \A i \in 1..Len(rec.out[layer]) :
                  i <= Len(rec.stimuli) =>
                      rec.out[layer][i] = Recorded(layer, rec.stimuli[i])

\* ------------------------------------------------------------------- C20
\* Optimizers 1 and 2 are given the same calls, each interleaved in its own
\* way with the calls of optimizer 3 and with draws from np.random; running
\* alone is one of these ways.  Whenever the second has caught up they are
\* equal: the same population, the same generator state, the same result of
\* the last call.
SameAsAlone ==
    script = <<>> => (opt[1] = opt[2] /\ last[1] = last[2])

\* A step of the model that calls an optimizer changes that optimizer only
\* and leaves np.random as it was.
OwnGeneratorOnly ==
    \A o \in Optimizers :
        (opt'[o] # opt[o] \/ last'[o] # last[o]) =>
            /\ np_random' = np_random
            /\ \A p \in Optimizers \ {o} : opt'[p] = opt[p]

\* C20: the random generators are owned per optimizer instance.  Every
\* interleaving of the init and step calls of two instances (and of draws
\* from np.random) gives each instance the population sequence it has when
\* run alone, and no operation of an optimizer writes the process-wide
\* random state or the state of another instance.
C20_PerInstanceGenerators ==
    []SameAsAlone /\ [][OwnGeneratorOnly]_vars

\* Optimizers 1 and 2 have both run a random init and two steps, the third
\* optimizer has run an init and two steps of its own in between, with a
\* generator in another state, and np.random has been drawn from.
C20_Witness ==
    /\ script = <<>>
    /\ calls[1] = MaxCalls /\ calls[2] = MaxCalls /\ calls[3] = MaxCalls
    /\ last[2].op = "step" /\ last[2].ok /\ last[3].op = "step" /\ last[3].ok
    /\ last[2].init_codes = None
    /\ opt[3].rng # opt[2].rng
    /\ opt[3].prev_codes # opt[2].prev_codes
    /\ np_random # NpRandomStart

\* ------------------------------------------------------------------- C22
\* Whether the entries of a sequence are pairwise different.
Distinct(s) == \A a, b \in 1..Len(s) : a # b => s[a] # s[b]

\* The families of a step that returned: one per child bred, each of
\* num_parents different indices into the population before the step.
FamiliesWithoutReplacement(c) ==
    (c.op = "step" /\ c.ok) =>
        /\ Len(c.families) = Len(c.children)
        /\ \A f \in 1..Len(c.families) :
              /\ Len(c.families[f]) = c.pre_hp.num_parents
              /\ Distinct(c.families[f])
              /\ \A i \in 1..Len(c.families[f]) :
                    c.families[f][i] \in 1..Len(c.pre[1])

\* A step on a population of fewer than num_parents codes raises.
TooFewParentsFails(c) ==
    (c.op = "step" /\ c.pre # None /\ Len(c.pre[1]) < c.pre_hp.num_parents) => ~c.ok

GeneWise(c) ==
    (c.op = "step" /\ c.ok) =>
        \A k \in 1..Len(c.children) : \A g \in 1..Len(c.children[k]) :
            /\ c.children[k][g] # Uninitialised
            /\ Cardinality({i \in 1..Len(c.families[k]) :
                              c.parentage[k][g] = i - 1}) = 1
            /\ \E i \in 1..Len(c.families[k]) :
                  /\ c.parentage[k][g] = i - 1
                  /\ c.children[k][g] = c.pre[1][c.families[k][i]][g]

\* With one parent per family a child is its parent, coordinate by coordinate.
CloneOfSingleParent(c) ==
    (c.op = "step" /\ c.ok /\ c.pre_hp.num_parents = 1) =>
        \A k \in 1..Len(c.children) :
            c.children[k] = c.pre[1][c.families[k][1]]

\* C23: crossover is gene-wise.  Every coordinate of every bred child is
\* assigned before mutation, with the value one parent of the child's family
\* has at that coordinate; with num_parents = 1 the child is a clone of its
\* parent.
C23_GeneWiseCrossover ==
    \A o \in Optimizers : GeneWise(last[o]) /\ CloneOfSingleParent(last[o])

\* A step has bred a child of two parents that has a coordinate of each, and
\* is neither of them.
C23_Witness ==
    /\ last[1].op = "step" /\ last[1].ok
    /\ last[1].pre_hp.num_parents = 2
    /\ \E k \in 1..Len(last[1].children) :
          /\ last[1].parentage[k] = <<0, 1>>
          /\ last[1].children[k] # last[1].pre[1][last[1].families[k][1]]
          /\ last[1].children[k] # last[1].pre[1][last[1].families[k][2]]

\* ------------------------------------------------------------------- C24
\* _mutate in a step that returned: a coordinate that mut_loc does not select
\* has the value it had in the array given, and that array is as it was.
OnlySelectedMutated(c) ==
    (c.op = "step" /\ c.ok) =>
        /\ Len(c.mutants) = Len(c.children) /\ Len(c.mut_loc) = Len(c.children)
        /\ \A k \in 1..Len(c.children) : \A g \in 1..Len(c.children[k]) :
              ~c.mut_loc[k][g] => c.mutants[k][g] = c.children[k][g]
        /\ c.next_gen_in = c.children

\* The population a step returns: first the elites, rows of the previous
\* population as a float32 holds them, then the mutants of the children bred
\* as a float32 holds them; of the previous population only copies are used.
ElitesNotMutated(c) ==
    (c.op = "step" /\ c.ok) =>
        LET k == Len(c.ret[1]) - Len(c.children)
        IN  /\ k >= 0
            /\ \A i \in 1..k :
                  \E p \in 1..Len(c.pre[1]) : c.ret[1][i] = F32Row(c.pre[1][p])
            /\ \A i \in 1..Len(c.children) :
                  c.ret[1][k + i] = F32Row(c.mutants[i])
            /\ \A i \in 1..Len(c.topk_c) :
                  \E p \in 1..Len(c.pre[1]) : c.topk_c[i] = c.pre[1][p]

\* C24: mutation touches only the selected coordinates of the bred children.
\* In a step that returns, _mutate leaves every coordinate it did not select
\* at the value given and leaves the array given as it was; the elites and the
\* previous population receive no noise.
C24_MutationFrame ==
    \A o \in Optimizers : OnlySelectedMutated(last[o]) /\ ElitesNotMutated(last[o])

\* A step has mutated one coordinate of a child and left another coordinate
\* of the same child alone, next to an elite.
C24_Witness ==
    /\ last[1].op = "step" /\ last[1].ok
    /\ Len(last[1].ret[1]) > Len(last[1].children)
    /\ \E k \in 1..Len(last[1].children) :
          /\ last[1].mut_loc[k][1] # last[1].mut_loc[k][2]
          /\ last[1].mutants[k] # last[1].children[k]

\* ------------------------------------------------------------------- C25
\* A step of an initialised optimizer, given one score per code, that keeps
\* as many elites as the population has codes and asks for a population of
\* that size.
PureElitismStep(c) ==
    /\ c.op = "step" /\ c.pre # None
    /\ c.arg_shape = <<Len(c.pre[1])>>
    /\ c.k = Len(c.pre[1]) /\ c.pop_size = c.k /\ c.k >= 1

\* Whether the rows of b are the rows of a, each once, in some order.
SameIndividuals(a, b) ==
    /\ Len(a) = Len(b)
    /\ \E f \in [1..Len(a) -> 1..Len(a)] :
          /\ \A i, j \in 1..Len(a) : i # j => f[i] # f[j]
          /\ \A i \in 1..Len(a) : b[i] = a[f[i]]

\* C25: a step with elite_count equal to the population size returns, breeds
\* no children, and returns the individuals of the previous population, each
\* once and unmodified.
C25_PureElitism ==
    \A o \in Optimizers :
        PureElitismStep(last[o]) =>
            /\ last[o].ok
            /\ last[o].children = <<>>
            /\ SameIndividuals(last[o].pre[1], last[o].ret[1])

\* ------------------------------------------------------------------- C28
\* C28: under a deterministic objective and with at least one elite, the
\* best score of the population a step returns is at least the best score of
\* the population before the step.
C28_BestNeverDecreases ==
    \A o \in Optimizers :
        (last[o].op = "step" /\ last[o].ok /\ last[o].k >= 1
            /\ last[o].scores = ScoreOf(last[o].pre[1])) =>
            MaxScore(ScoreOf(last[o].ret[1])) >= MaxScore(last[o].scores)

\* ------------------------------------------------------------------- C26
\* C26: after generations that include natural stimuli, the best natural
\* score stored is the highest score a natural stimulus has had so far,
\* negative or not, the best natural image stored is a stimulus that had it,
\* and the scores and the message handed to the step are those given.
C26_BestNaturalRecord ==
    (nat.phase = "RUN" /\ nat.use_natural /\ nat.ok /\ nat.seen_max # None) =>
        /\ nat.best_scr.nat = nat.seen_max[1]
        /\ nat.best_img.nat \in nat.seen_imgs
        /\ nat.handed = nat.given

\* ------------------------------------------------------------------- C27
\* The j-th image (from 1) an iterator at batch position pos gives when the
\* loader is gone through in circles.
Circular(loader, pos, j) ==
    Natural(((Min(pos * loader.batch_size, loader.size) + j - 1) % loader.size) + 1)

\* A call of _load_natural_images on a generator with a loader whose images
\* have the shape of the generated ones.
LoadOnLoader ==
    /\ fwd.op = "load"
    /\ fwd.pre.loader # None
    /\ fwd.pre.loader[1].shape = GenImgShape

\* C27: a request of n >= 1 natural images on a non-empty loader returns
\* exactly n images, those the loader gives from the position of the iterator
\* on, starting again from the first when it is exhausted; a request of 0
\* images returns an empty batch and leaves the iterator where it was.
C27_CircularLoader ==
    /\ (LoadOnLoader /\ fwd.asked >= 1) =>
          /\ fwd.ok
          /\ Len(fwd.out) = fwd.asked
          /\ \A j \in 1..Len(fwd.out) :
                fwd.out[j] = Circular(fwd.pre.loader[1], fwd.pre.iter, j)
    /\ (fwd.op = "load" /\ fwd.asked = 0) =>
          fwd.ok /\ fwd.out = <<>> /\ gen = fwd.pre

\* ------------------------------------------------------------------- C29
\* C29: the arrays the caller sees are not the optimizer's population.  None
\* of init_codes, the array init returned and the array step returned is the
\* object self._prev_codes, and whatever the caller writes to them, the
\* population of the optimizer is the one its last init or step stored.
C29_NoAliasing ==
    mem.prev # 0 =>
        /\ mem.prev \notin HeldIds
        /\ opt[1].prev_codes = mem.stored

\* The caller has written to the init_codes it gave, to the array init
\* returned and to the array a step returned, and a step has returned after
\* a write.
C29_Witness ==
    /\ mem.wrote = {"init_codes", "init_ret", "step_ret"}
    /\ last[1].op = "step" /\ last[1].ok
    /\ mem.held.step_ret[1].val # last[1].ret[1]
    /\ mem.held.init_codes[1].val # InitArray(MaxPop, CodeLen, 1)

\* ------------------------------------------------------------------- C30
\* C30: two Clusters objects built without arguments are independent.  After
\* any adds and empties on either, the cluster list of each holds the
\* clusters added to that object since it was built or last emptied, and so
\* do its length, its counts and its labeling.
C30_ClustersIndependent ==
    \A o \in {"a", "b"} :
        clu.obj[o] # 0 =>
            /\ Clusters_of(o) = clu.own[o]
            /\ Len(Clusters_of(o)) = Len(clu.own[o])
            /\ ClustersCounts(Clusters_of(o)) = ClustersCounts(clu.own[o])
            /\ Labeling(Clusters_of(o)) = Labeling(clu.own[o])

====
